---- MODULE Spec2Model ----
(***************************************************************************)
(* A model of kudu/util/memory/memory.h: the BufferAllocator contract, the *)
(* Quota mediator and the decorator allocators built on them.              *)
(*                                                                         *)
(* size_t is modelled as the integers 0..SizeMax with wrap-around          *)
(* arithmetic (modulo SizeMax + 1), so that every comparison the code      *)
(* makes to avoid (or fails to avoid) unsigned overflow is exercised.      *)
(***************************************************************************)
EXTENDS Integers, Sequences, FiniteSets, Bags, TLC

\* std::numeric_limits<size_t>::max(), scaled down to a small word.
SizeMax == 4

\* The slack (1 << 28) of Quota::Free's "suspiciously big" test, scaled to
\* the small word.
UnderflowSlack == 2

\* How far below zero the ghost sum granted-minus-freed is followed.
MaxDebt == 5

Size == 0..SizeMax

Modulus == SizeMax + 1

\* Unsigned (size_t) addition and subtraction.
AddSz(a, b) == (a + b) % Modulus

SubSz(a, b) == (a - b + Modulus) % Modulus

Min(a, b) == IF a <= b THEN a ELSE b

Max(a, b) == IF a >= b THEN a ELSE b

VARIABLES
    q,      \* a StaticQuota: [usage_, quota_, enforced_]
    qlast,  \* the last call made on the quota, with its arguments and result
    qghost, \* history of the quota: [net, overFreed, quotaSet]
    chain,  \* a chain of allocators: chain[1] is the entry node, chain[i + 1]
            \* the delegate (or member allocator) of chain[i], the last the heap
    blocks, \* the Buffers handed out and not yet destroyed (a bag)
    last,   \* the last call made on the chain, with its arguments and result
    mutex,  \* ThreadSafeBufferAllocator::mutex_: the thread holding it, or 0
    th,     \* each thread's place in its call and the call's local variables
    hist,   \* each thread's calls so far: [calls, ones]
    log,    \* what the world outside the chain has been told, in order: the
            \* collector's calls, or the owned objects deleted
    data_,  \* the data of the Buffer the caller holds, byte by byte
    state_, \* rw_semaphore::state_: the number of readers and the write flag
    sem     \* each thread's place in its call on the rw_semaphore, the call's
            \* cur_state, and the locks the thread holds

qvars == <<q, qlast, qghost>>

nvars == <<chain, blocks, last>>

tvars == <<mutex, th, hist>>

svars == <<state_, sem>>

xvars == <<log, data_, svars>>

vars == <<q, qlast, qghost, chain, blocks, last, mutex, th, hist, log, data_,
          state_, sem>>

-----------------------------------------------------------------------------
(* Quota<thread_safe> and StaticQuota<thread_safe>                          *)

\* A mutant of QuotaAllocation: the in-quota branch grants the whole request
\* instead of capping it at the remaining quota.
QuotaAllocation_NoCap(usage, quota, enforced, requested, minimal) ==
    IF usage > quota \/ minimal > SubSz(quota, usage)
    THEN IF ~enforced /\ minimal <= SizeMax - usage THEN minimal ELSE 0
    ELSE requested

\* A mutant of QuotaAllocation: the in-quota branch grants all that remains of
\* the quota, without capping it at the request.
QuotaAllocation_GrantsRemaining(usage, quota, enforced, requested, minimal) ==
    IF usage > quota \/ minimal > SubSz(quota, usage)
    THEN IF ~enforced /\ minimal <= SizeMax - usage THEN minimal ELSE 0
    ELSE SubSz(quota, usage)

\* A mutant of QuotaAllocation: the out-of-quota test forgets "usage_ > quota".
QuotaAllocation_NoOverTest(usage, quota, enforced, requested, minimal) ==
    IF minimal > SubSz(quota, usage)
    THEN IF ~enforced /\ minimal <= SizeMax - usage THEN minimal ELSE 0
    ELSE Min(requested, SubSz(quota, usage))

\* A mutant of QuotaAllocation: an unenforced quota grants the whole request
\* when out of quota.
QuotaAllocation_SoftGrantsRequested(usage, quota, enforced, requested, minimal) ==
    IF usage > quota \/ minimal > SubSz(quota, usage)
    THEN IF ~enforced /\ minimal <= SizeMax - usage THEN requested ELSE 0
    ELSE Min(requested, SubSz(quota, usage))

\* A mutant of QuotaAllocation: a request that would bring the usage exactly
\* to the quota counts as out of quota.
QuotaAllocation_DeniesLastByte(usage, quota, enforced, requested, minimal) ==
    IF usage > quota \/ minimal >= SubSz(quota, usage)
    THEN IF ~enforced /\ minimal <= SizeMax - usage THEN minimal ELSE 0
    ELSE Min(requested, SubSz(quota, usage))

\* A mutant of QuotaAllocation: an enforced quota grants minimal when out of
\* quota, as an unenforced one does.
QuotaAllocation_HardIsSoft(usage, quota, enforced, requested, minimal) ==
    IF usage > quota \/ minimal > SubSz(quota, usage)
    THEN IF minimal <= SizeMax - usage THEN minimal ELSE 0
    ELSE Min(requested, SubSz(quota, usage))

\* A mutant of QuotaAllocation: an unenforced quota grants minimal when out of
\* quota without testing that usage_ + minimal fits the counter.
QuotaAllocation_NoOverflowTest(usage, quota, enforced, requested, minimal) ==
    IF usage > quota \/ minimal > SubSz(quota, usage)
    THEN IF ~enforced THEN minimal ELSE 0
    ELSE Min(requested, SubSz(quota, usage))

\* The value Quota::Allocate grants: the local "allocation".
QuotaAllocation(usage, quota, enforced, requested, minimal) ==
    IF usage > quota \/ minimal > SubSz(quota, usage)
    THEN \* OOQ (out of quota)
         IF ~enforced /\ minimal <= SizeMax - usage THEN minimal ELSE 0
    ELSE Min(requested, SubSz(quota, usage))

\* A quota that charges the minimal of a request it denies.
QuotaAllocate_ChargesDenied(qs, requested, minimal) ==
    LET allocation ==
            QuotaAllocation(qs.usage_, qs.quota_, qs.enforced_, requested, minimal)
    IN  [q   |-> [qs EXCEPT !.usage_ = AddSz(qs.usage_, Max(allocation, minimal))],
         ret |-> allocation]

\* Quota::Allocate: the quota after the call and the value returned.
QuotaAllocate(qs, requested, minimal) ==
    LET allocation ==
            QuotaAllocation(qs.usage_, qs.quota_, qs.enforced_, requested, minimal)
    IN  [q   |-> [qs EXCEPT !.usage_ = AddSz(qs.usage_, allocation)],
         ret |-> allocation]

\* The test under which Quota::Free logs "Suspiciously big usage_ value".
QuotaFreeLogsError(usage) == usage > SizeMax - UnderflowSlack

\* Quota::Free: the quota after the call and whether the error was logged.
QuotaFree(qs, amount) ==
    LET u == SubSz(qs.usage_, amount)
    IN  [q      |-> [qs EXCEPT !.usage_ = u],
         logged |-> QuotaFreeLogsError(u)]

\* A mutant of QuotaAvailable: the subtraction without the "usage_ >= quota" test.
QuotaAvailable_NoTest(qs) == SubSz(qs.quota_, qs.usage_)

\* Quota::Available.
QuotaAvailable(qs) ==
    IF qs.usage_ >= qs.quota_ THEN 0 ELSE SubSz(qs.quota_, qs.usage_)

\* Quota::GetUsage.
QuotaGetUsage(qs) == qs.usage_

\* Quota::GetQuota (StaticQuota::GetQuotaInternal).
QuotaGetQuota(qs) == qs.quota_

\* A mutant of StaticQuotaSetQuota: lowering the limit also lowers the usage
\* to it.
StaticQuotaSetQuota_ClampsUsage(qs, quota) ==
    [qs EXCEPT !.quota_ = quota, !.usage_ = Min(@, quota)]

\* StaticQuota::SetQuota.
StaticQuotaSetQuota(qs, quota) == [qs EXCEPT !.quota_ = quota]

\* StaticQuota's constructors: usage_(0), enforced_(enforced), SetQuota(quota).
StaticQuotaNew(quota, enforced) ==
    StaticQuotaSetQuota([usage_ |-> 0, quota_ |-> 0, enforced_ |-> enforced], quota)

-----------------------------------------------------------------------------
(* Buffers and the allocator nodes                                          *)

\* BestEffortAllocate returned NULL.
NoBuffer == -1

\* A Buffer: its size_ and its allocator_ (the place in the chain of the node
\* that FreeInternal is called on when the buffer is destroyed).
Buffer(size, allocator) == [size_ |-> size, allocator_ |-> allocator]

\* An Update that also makes the delegate of allocator_ the buffer's allocator.
Update_Rebinds(buffer, new_size) == Buffer(new_size, buffer.allocator_ + 1)

\* Buffer::Update, called by a successful realloc: data_ and size_ are
\* assigned, allocator_ is const.
Update(buffer, new_size) == [buffer EXCEPT !.size_ = new_size]

\* What an internal call gives back: the chain after the call, the buffer size
\* granted (or NoBuffer), the collector events emitted, and whether the heap
\* ran out of memory during the call.
Result(ch, buf, ev, oom) == [ch |-> ch, buf |-> buf, ev |-> ev, oom |-> oom]

HeapNode == [kind |-> "Heap"]

ClearingNode == [kind |-> "Clearing"]

\* MemoryLimit(quota, enforced, delegate): quota_(quota, enforced) and
\* allocator_(delegate, &quota_).
MemoryLimitNode(quota, enforced) ==
    [kind |-> "MemoryLimit", quota_ |-> StaticQuotaNew(quota, enforced)]

\* SoftQuotaBypassingBufferAllocator(allocator, bypassed_amount); its member
\* allocator_(SIZE_MAX, allocator) is the next node of the chain.
SoftQuotaBypassingNodes(bypassed_amount) ==
    << [kind |-> "SoftQuotaBypassing", bypassed_amount_ |-> bypassed_amount],
       MemoryLimitNode(SizeMax, TRUE) >>

StatsNode == [kind |-> "StatisticsCollecting"]

\* MemoryTrackingBufferAllocator(delegate, mem_tracker, enforce_limit), with
\* the MemTracker's consumption and limit.
MemoryTrackingNode(enforce_limit, limit) ==
    [kind |-> "MemoryTracking", enforce_limit_ |-> enforce_limit,
     consumption |-> 0, limit |-> limit]

ThreadSafeNode == [kind |-> "ThreadSafe"]

OwningNode == [kind |-> "Owning", owned_ |-> <<>>]

\* A mutant of GuaranteeMemoryNodes: limit_ is built unenforced.
GuaranteeMemoryNodes_SoftLimit(memory_quota) ==
    << [kind |-> "GuaranteeMemory", memory_guarantee_ |-> memory_quota],
       MemoryLimitNode(memory_quota, FALSE) >>

\* GuaranteeMemory(memory_quota, delegate); its member
\* limit_(memory_quota, true, delegate) is the next node of the chain.
GuaranteeMemoryNodes(memory_quota) ==
    << [kind |-> "GuaranteeMemory", memory_guarantee_ |-> memory_quota],
       MemoryLimitNode(memory_quota, TRUE) >>

RECURSIVE Available(_, _)
RECURSIVE AllocateInternal(_, _, _, _, _, _)
RECURSIVE FreeInternal(_, _, _)

\* MemTracker::SpareCapacity.
TrackerSpareCapacity(n) ==
    IF n.consumption >= n.limit THEN 0 ELSE n.limit - n.consumption

\* MemTracker::TryConsume: whether bytes more fit under the tracker's limit.
TrackerTryConsume(n, bytes) == n.consumption + bytes <= n.limit

\* MediatingBufferAllocator::Available.
MediatingAvailable(ch, i) ==
    Min(Available(ch, i + 1), QuotaAvailable(ch[i].quota_))

\* SoftQuotaBypassingBufferAllocator::Available; allocator_ is chain[i + 1].
SoftQuotaBypassingAvailable(ch, i) ==
    LET usage == QuotaGetUsage(ch[i + 1].quota_)
        available == Available(ch, i + 1)
    IN  IF ch[i].bypassed_amount_ > usage
        THEN Max(SubSz(ch[i].bypassed_amount_, usage), available)
        ELSE available

\* MemoryTrackingBufferAllocator::Available.
MemoryTrackingAvailable(ch, i) ==
    IF ch[i].enforce_limit_ THEN TrackerSpareCapacity(ch[i]) ELSE SizeMax

\* A mutant of GuaranteeMemoryAvailable: the guarantee, whatever is in use.
GuaranteeMemoryAvailable_IgnoresUsage(ch, i) == ch[i].memory_guarantee_

\* GuaranteeMemory::Available; limit_ is chain[i + 1].
GuaranteeMemoryAvailable(ch, i) ==
    SubSz(ch[i].memory_guarantee_, QuotaGetUsage(ch[i + 1].quota_))

\* BufferAllocator::Available, dispatched on the node's class.
Available(ch, i) ==
    CASE ch[i].kind = "Heap" -> SizeMax
      [] ch[i].kind = "MemoryLimit" -> MediatingAvailable(ch, i)
      [] ch[i].kind = "SoftQuotaBypassing" -> SoftQuotaBypassingAvailable(ch, i)
      [] ch[i].kind = "MemoryTracking" -> MemoryTrackingAvailable(ch, i)
      [] ch[i].kind = "GuaranteeMemory" -> GuaranteeMemoryAvailable(ch, i)
      [] OTHER -> Available(ch, i + 1)

\* HeapBufferAllocator::AllocateInternal: a buffer of requested bytes, or NULL
\* when malloc cannot provide them (room is what malloc can provide).
HeapAllocateInternal(ch, i, requested, minimal, originator, room) ==
    IF requested = 0 \/ requested <= room
    THEN Result(ch, requested, <<>>, FALSE)
    ELSE Result(ch, NoBuffer, <<>>, TRUE)

\* A mutant of MediatingAllocateInternal: the delegate is asked for the whole
\* request, not for what the mediator granted.
MediatingAllocateInternal_AsksRequested(ch, i, requested, minimal, originator, room) ==
    LET m == QuotaAllocate(ch[i].quota_, requested, minimal)
        ch1 == [ch EXCEPT ![i].quota_ = m.q]
    IN  IF m.ret = 0 /\ minimal > 0
        THEN Result(ch1, NoBuffer, <<>>, FALSE)
        ELSE AllocateInternal(ch1, i + 1, requested, requested, originator, room)

\* MediatingBufferAllocator::AllocateInternal (MemoryLimit::AllocateInternal
\* forwards to it): the mediator trims the request; a zero grant for a
\* non-zero minimal is a denial; the delegate is asked for exactly the grant.
\* A mediating node that lets its delegate try the minimal of a request the
\* mediator has denied, and then returns NULL.
MediatingAllocateInternal_AsksDelegateAnyway(ch, i, requested, minimal, originator, room) ==
    LET m == QuotaAllocate(ch[i].quota_, requested, minimal)
        ch1 == [ch EXCEPT ![i].quota_ = m.q]
    IN  IF m.ret = 0 /\ minimal > 0
        THEN LET r == AllocateInternal(ch1, i + 1, minimal, minimal, originator, room)
             IN  Result(r.ch, NoBuffer, r.ev, r.oom)
        ELSE AllocateInternal(ch1, i + 1, m.ret, m.ret, originator, room)

MediatingAllocateInternal(ch, i, requested, minimal, originator, room) ==
    LET m == QuotaAllocate(ch[i].quota_, requested, minimal)
        ch1 == [ch EXCEPT ![i].quota_ = m.q]
    IN  IF m.ret = 0 /\ minimal > 0
        THEN Result(ch1, NoBuffer, <<>>, FALSE)
        ELSE AllocateInternal(ch1, i + 1, m.ret, m.ret, originator, room)

\* SoftQuotaBypassingBufferAllocator::AdjustMinimal.
AdjustMinimal(ch, i, requested, minimal) ==
    Min(requested, Max(minimal, SoftQuotaBypassingAvailable(ch, i)))

\* A mutant of SoftQuotaBypassingAllocateInternal: no second attempt with the
\* caller's minimal.
SoftQuotaBypassingAllocateInternal_NoRetry(ch, i, requested, minimal, originator, room) ==
    AllocateInternal(ch, i + 1, requested, AdjustMinimal(ch, i, requested, minimal),
                     originator, room)

\* SoftQuotaBypassingBufferAllocator::AllocateInternal.
SoftQuotaBypassingAllocateInternal(ch, i, requested, minimal, originator, room) ==
    LET first == AllocateInternal(ch, i + 1, requested,
                                  AdjustMinimal(ch, i, requested, minimal),
                                  originator, room)
    IN  IF first.buf # NoBuffer
        THEN first
        ELSE LET second == AllocateInternal(first.ch, i + 1, requested, minimal,
                                            originator, room)
             IN  Result(second.ch, second.buf, first.ev \o second.ev,
                        first.oom \/ second.oom)

\* ClearingBufferAllocator::AllocateInternal (the zeroing does not change the
\* buffer's size).
ClearingAllocateInternal(ch, i, requested, minimal, originator, room) ==
    AllocateInternal(ch, i + 1, requested, minimal, originator, room)

\* MemoryStatisticsCollectingBufferAllocator::AllocateInternal.
\* A collector that is told the bytes asked for, not the bytes granted.
StatsAllocateInternal_ReportsRequested(ch, i, requested, minimal, originator, room) ==
    LET r == AllocateInternal(ch, i + 1, requested, minimal, originator, room)
    IN  IF r.buf # NoBuffer
        THEN Result(r.ch, r.buf, r.ev \o <<[e |-> "Allocated", bytes |-> requested]>>, r.oom)
        ELSE Result(r.ch, r.buf, r.ev \o <<[e |-> "Refused", bytes |-> requested]>>, r.oom)

StatsAllocateInternal(ch, i, requested, minimal, originator, room) ==
    LET r == AllocateInternal(ch, i + 1, requested, minimal, originator, room)
    IN  IF r.buf # NoBuffer
        THEN Result(r.ch, r.buf, r.ev \o <<[e |-> "Allocated", bytes |-> r.buf]>>, r.oom)
        ELSE Result(r.ch, r.buf, r.ev \o <<[e |-> "Refused", bytes |-> requested]>>, r.oom)

\* A TryConsume that gives the tracker's verdict whatever enforce_limit_ is.
MemoryTrackingTryConsume_AlwaysEnforces(n, bytes) ==
    IF ~TrackerTryConsume(n, bytes)
    THEN [ok |-> FALSE, n |-> n]
    ELSE [ok |-> TRUE, n |-> [n EXCEPT !.consumption = @ + bytes]]

\* MemoryTrackingBufferAllocator::TryConsume: with enforce_limit_ the
\* tracker's verdict; without it the bytes are consumed whatever the tracker
\* says, and the answer is true.
MemoryTrackingTryConsume(n, bytes) ==
    IF n.enforce_limit_ /\ ~TrackerTryConsume(n, bytes)
    THEN [ok |-> FALSE, n |-> n]
    ELSE [ok |-> TRUE, n |-> [n EXCEPT !.consumption = @ + bytes]]

\* One attempt of MemoryTrackingBufferAllocator::AllocateInternal: consume
\* bytes, ask the delegate for exactly bytes, release them if it fails.
MemoryTrackingAttempt(ch, i, bytes, originator, room) ==
    LET c == MemoryTrackingTryConsume(ch[i], bytes)
    IN  IF ~c.ok
        THEN Result(ch, NoBuffer, <<>>, FALSE)
        ELSE LET r == AllocateInternal([ch EXCEPT ![i] = c.n], i + 1, bytes, bytes,
                                       originator, room)
             IN  IF r.buf # NoBuffer
                 THEN r
                 ELSE Result([r.ch EXCEPT ![i].consumption = @ - bytes],
                             NoBuffer, r.ev, r.oom)

\* MemoryTrackingBufferAllocator::AllocateInternal: the whole request if the
\* tracker takes it, else the minimal, else NULL.
MemoryTrackingAllocateInternal(ch, i, requested, minimal, originator, room) ==
    LET first == MemoryTrackingAttempt(ch, i, requested, originator, room)
    IN  IF first.buf # NoBuffer
        THEN first
        ELSE LET second == MemoryTrackingAttempt(first.ch, i, minimal, originator, room)
             IN  Result(second.ch, second.buf, first.ev \o second.ev,
                        first.oom \/ second.oom)

\* ThreadSafeBufferAllocator::AllocateInternal, run by one thread: the mutex
\* is taken and released around the delegate's call.
ThreadSafeAllocateInternal(ch, i, requested, minimal, originator, room) ==
    AllocateInternal(ch, i + 1, requested, minimal, originator, room)

\* OwningBufferAllocator::AllocateInternal.
OwningAllocateInternal(ch, i, requested, minimal, originator, room) ==
    AllocateInternal(ch, i + 1, requested, minimal, originator, room)

\* A mutant of GuaranteeMemoryAllocateInternal: the caller's minimal is passed
\* on to limit_.
GuaranteeMemoryAllocateInternal_PassesMinimal(ch, i, requested, minimal, originator, room) ==
    IF requested > GuaranteeMemoryAvailable(ch, i)
    THEN Result(ch, NoBuffer, <<>>, FALSE)
    ELSE AllocateInternal(ch, i + 1, requested, minimal, originator, room)

\* A mutant of GuaranteeMemoryAllocateInternal: a best-effort node, which
\* hands the request to limit_ as it came.
GuaranteeMemoryAllocateInternal_BestEffort(ch, i, requested, minimal, originator, room) ==
    AllocateInternal(ch, i + 1, requested, minimal, originator, room)

\* GuaranteeMemory::AllocateInternal.
GuaranteeMemoryAllocateInternal(ch, i, requested, minimal, originator, room) ==
    IF requested > GuaranteeMemoryAvailable(ch, i)
    THEN Result(ch, NoBuffer, <<>>, FALSE)
    ELSE AllocateInternal(ch, i + 1, requested, requested, originator, room)

\* DelegateAllocate: delegate->AllocateInternal, dispatched on the node's class.
AllocateInternal(ch, i, requested, minimal, originator, room) ==
    CASE ch[i].kind = "Heap" ->
            HeapAllocateInternal(ch, i, requested, minimal, originator, room)
      [] ch[i].kind = "MemoryLimit" ->
            MediatingAllocateInternal(ch, i, requested, minimal, originator, room)
      [] ch[i].kind = "SoftQuotaBypassing" ->
            SoftQuotaBypassingAllocateInternal(ch, i, requested, minimal, originator, room)
      [] ch[i].kind = "Clearing" ->
            ClearingAllocateInternal(ch, i, requested, minimal, originator, room)
      [] ch[i].kind = "StatisticsCollecting" ->
            StatsAllocateInternal(ch, i, requested, minimal, originator, room)
      [] ch[i].kind = "MemoryTracking" ->
            MemoryTrackingAllocateInternal(ch, i, requested, minimal, originator, room)
      [] ch[i].kind = "ThreadSafe" ->
            ThreadSafeAllocateInternal(ch, i, requested, minimal, originator, room)
      [] ch[i].kind = "Owning" ->
            OwningAllocateInternal(ch, i, requested, minimal, originator, room)
      [] ch[i].kind = "GuaranteeMemory" ->
            GuaranteeMemoryAllocateInternal(ch, i, requested, minimal, originator, room)

\* MediatingBufferAllocator::FreeInternal: the delegate frees the buffer, then
\* the mediator is credited with its size.
MediatingFreeInternal(ch, i, size) ==
    LET r == FreeInternal(ch, i + 1, size)
    IN  Result([r.ch EXCEPT ![i].quota_ = QuotaFree(@, size).q], NoBuffer, r.ev, FALSE)

\* MemoryStatisticsCollectingBufferAllocator::FreeInternal.
StatsFreeInternal(ch, i, size) ==
    LET r == FreeInternal(ch, i + 1, size)
    IN  Result(r.ch, NoBuffer, r.ev \o <<[e |-> "Freed", bytes |-> size]>>, FALSE)

\* MemoryTrackingBufferAllocator::FreeInternal: the delegate frees the buffer
\* and the tracker releases its size.
MemoryTrackingFreeInternal(ch, i, size) ==
    LET r == FreeInternal(ch, i + 1, size)
    IN  Result([r.ch EXCEPT ![i].consumption = @ - size], NoBuffer, r.ev, FALSE)

\* DelegateFree: delegate->FreeInternal, dispatched on the node's class; the
\* nodes that keep no account of their own forward to their delegate.
FreeInternal(ch, i, size) ==
    CASE ch[i].kind = "Heap" -> Result(ch, NoBuffer, <<>>, FALSE)
      [] ch[i].kind = "MemoryLimit" -> MediatingFreeInternal(ch, i, size)
      [] ch[i].kind = "StatisticsCollecting" -> StatsFreeInternal(ch, i, size)
      [] ch[i].kind = "MemoryTracking" -> MemoryTrackingFreeInternal(ch, i, size)
      [] OTHER -> FreeInternal(ch, i + 1, size)

\* A decorator that names itself as the originator when it calls its delegate.
PassedOriginator_This(i, originator) == i

\* The originator the node at place i hands to DelegateAllocate: the one it
\* was given.
PassedOriginator(i, originator) == originator

\* The originator that reaches the heap, which makes it the new Buffer's
\* allocator_, when the node at place i is called with the given originator.
RECURSIVE OriginatorAtHeap(_, _, _)
OriginatorAtHeap(ch, i, originator) ==
    IF ch[i].kind = "Heap"
    THEN originator
    ELSE OriginatorAtHeap(ch, i + 1, PassedOriginator(i, originator))

\* BufferAllocator::BestEffortAllocate on the node at place entry of the chain:
\* AllocateInternal(requested, minimal, this).
BestEffortAllocate(ch, entry, requested, minimal, room) ==
    AllocateInternal(ch, entry, requested, minimal, entry, room)

RECURSIVE ReallocateInternal(_, _, _, _, _, _, _)

\* What an internal reallocation gives back: a Result whose buf is the
\* buffer's new size, or NoBuffer for false, together with the buffer as the
\* call left it: its size_, and whether its data_ is the "same" pointer or
\* has "moved".
Reallocated(ch, ok, size, data, ev, oom) ==
    [ch |-> ch, buf |-> IF ok THEN size ELSE NoBuffer, ev |-> ev, oom |-> oom,
     size |-> size, data |-> data]

\* data_ after two reallocations in a row.
MovedEither(d1, d2) == IF d1 = "moved" \/ d2 = "moved" THEN "moved" ELSE "same"

\* A mutant of HeapReallocateInternal: every reallocation the heap serves
\* gives the buffer new data.
HeapReallocateInternal_AlwaysMoves(ch, i, requested, minimal, size, originator, room) ==
    IF requested <= size \/ requested <= room
    THEN Reallocated(ch, TRUE, requested, "moved", <<>>, FALSE)
    ELSE Reallocated(ch, FALSE, size, "same", <<>>, TRUE)

\* HeapBufferAllocator::ReallocateInternal on a buffer of the given size: the
\* buffer gets the requested size (Buffer::Update; a buffer that grows may
\* get new data), or the heap fails and leaves it as it was.
HeapReallocateInternal(ch, i, requested, minimal, size, originator, room) ==
    IF requested <= size \/ requested <= room
    THEN Reallocated(ch, TRUE, requested,
                     IF requested > size THEN "moved" ELSE "same", <<>>, FALSE)
    ELSE Reallocated(ch, FALSE, size, "same", <<>>, TRUE)

\* MediatingBufferAllocator::ReallocateInternal: the same gate as in
\* AllocateInternal, then the delegate's ReallocateInternal on the same buffer.
\* A mediating node that gives the approved bytes back to the mediator when
\* its delegate fails to reallocate.
MediatingReallocateInternal_RollsBack(ch, i, requested, minimal, size, originator, room) ==
    LET m == QuotaAllocate(ch[i].quota_, requested, minimal)
        ch1 == [ch EXCEPT ![i].quota_ = m.q]
    IN  IF m.ret = 0 /\ minimal > 0
        THEN Reallocated(ch1, FALSE, size, "same", <<>>, FALSE)
        ELSE LET r == ReallocateInternal(ch1, i + 1, m.ret, m.ret, size, originator, room)
             IN  IF r.buf # NoBuffer
                 THEN r
                 ELSE Reallocated([r.ch EXCEPT ![i].quota_ = QuotaFree(@, m.ret).q],
                                  FALSE, r.size, r.data, r.ev, r.oom)

MediatingReallocateInternal(ch, i, requested, minimal, size, originator, room) ==
    LET m == QuotaAllocate(ch[i].quota_, requested, minimal)
        ch1 == [ch EXCEPT ![i].quota_ = m.q]
    IN  IF m.ret = 0 /\ minimal > 0
        THEN Reallocated(ch1, FALSE, size, "same", <<>>, FALSE)
        ELSE ReallocateInternal(ch1, i + 1, m.ret, m.ret, size, originator, room)

\* A mutant of SoftQuotaBypassingReallocateInternal: the second attempt is
\* made whatever the first one returned, and its answer is the call's.
SoftQuotaBypassingReallocateInternal_AlwaysRetries(ch, i, requested, minimal, size, originator, room) ==
    LET first == ReallocateInternal(ch, i + 1, requested,
                                    AdjustMinimal(ch, i, requested, minimal),
                                    size, originator, room)
        second == ReallocateInternal(first.ch, i + 1, requested, minimal,
                                     first.size, originator, room)
    IN  Reallocated(second.ch, second.buf # NoBuffer, second.size,
                    MovedEither(first.data, second.data),
                    first.ev \o second.ev, first.oom \/ second.oom)

\* SoftQuotaBypassingBufferAllocator::ReallocateInternal.
SoftQuotaBypassingReallocateInternal(ch, i, requested, minimal, size, originator, room) ==
    LET first == ReallocateInternal(ch, i + 1, requested,
                                    AdjustMinimal(ch, i, requested, minimal),
                                    size, originator, room)
    IN  IF first.buf # NoBuffer
        THEN first
        ELSE LET second == ReallocateInternal(first.ch, i + 1, requested, minimal,
                                              first.size, originator, room)
             IN  Reallocated(second.ch, second.buf # NoBuffer, second.size,
                             MovedEither(first.data, second.data),
                             first.ev \o second.ev, first.oom \/ second.oom)

\* ClearingBufferAllocator::ReallocateInternal (the zeroing does not change
\* the buffer's size).
ClearingReallocateInternal(ch, i, requested, minimal, size, originator, room) ==
    ReallocateInternal(ch, i + 1, requested, minimal, size, originator, room)

\* MemoryStatisticsCollectingBufferAllocator::ReallocateInternal: the bytes
\* the buffer grew by are reported as allocated (none if it shrank), a failure
\* is reported as a refusal of requested.
StatsReallocateInternal(ch, i, requested, minimal, size, originator, room) ==
    LET r == ReallocateInternal(ch, i + 1, requested, minimal, size, originator, room)
        e == IF r.buf # NoBuffer
             THEN [e |-> "Allocated",
                   bytes |-> IF r.size > size THEN r.size - size ELSE 0]
             ELSE [e |-> "Refused", bytes |-> requested]
    IN  Reallocated(r.ch, r.buf # NoBuffer, r.size, r.data, r.ev \o <<e>>, r.oom)

\* ThreadSafeBufferAllocator::ReallocateInternal.
ThreadSafeReallocateInternal(ch, i, requested, minimal, size, originator, room) ==
    ReallocateInternal(ch, i + 1, requested, minimal, size, originator, room)

\* OwningBufferAllocator::ReallocateInternal.
OwningReallocateInternal(ch, i, requested, minimal, size, originator, room) ==
    ReallocateInternal(ch, i + 1, requested, minimal, size, originator, room)

\* static_cast<int64_t> of a size_t: the same bits read as a signed number.
ToInt64(v) == IF v > SizeMax \div 2 THEN v - Modulus ELSE v

\* GuaranteeMemory::ReallocateInternal on a non-null buffer.
GuaranteeMemoryReallocateInternal(ch, i, requested, minimal, size, originator, room) ==
    LET additional_memory == ToInt64(SubSz(requested, size))
    IN  IF additional_memory <= ToInt64(GuaranteeMemoryAvailable(ch, i))
        THEN ReallocateInternal(ch, i + 1, requested, requested, size, originator, room)
        ELSE Reallocated(ch, FALSE, size, "same", <<>>, FALSE)

\* DelegateReallocate: delegate->ReallocateInternal, dispatched on the node's
\* class.
ReallocateInternal(ch, i, requested, minimal, size, originator, room) ==
    CASE ch[i].kind = "Heap" ->
             HeapReallocateInternal(ch, i, requested, minimal, size, originator, room)
      [] ch[i].kind = "MemoryLimit" ->
             MediatingReallocateInternal(ch, i, requested, minimal, size, originator, room)
      [] ch[i].kind = "SoftQuotaBypassing" ->
             SoftQuotaBypassingReallocateInternal(ch, i, requested, minimal, size,
                                                  originator, room)
      [] ch[i].kind = "Clearing" ->
             ClearingReallocateInternal(ch, i, requested, minimal, size, originator, room)
      [] ch[i].kind = "StatisticsCollecting" ->
             StatsReallocateInternal(ch, i, requested, minimal, size, originator, room)
      [] ch[i].kind = "ThreadSafe" ->
             ThreadSafeReallocateInternal(ch, i, requested, minimal, size, originator, room)
      [] ch[i].kind = "Owning" ->
             OwningReallocateInternal(ch, i, requested, minimal, size, originator, room)
      [] ch[i].kind = "GuaranteeMemory" ->
             GuaranteeMemoryReallocateInternal(ch, i, requested, minimal, size,
                                               originator, room)

\* BufferAllocator::BestEffortReallocate of a non-null buffer on the node at
\* place entry: ReallocateInternal(requested, minimal, buffer, this).
BestEffortReallocate(ch, entry, requested, minimal, size, room) ==
    ReallocateInternal(ch, entry, requested, minimal, size, entry, room)

-----------------------------------------------------------------------------
(* The quota used on its own: any caller, any arguments.                    *)

NoCall == [op |-> "none", requested |-> 0, minimal |-> 0, usage |-> 0,
           ret |-> 0, logged |-> FALSE]

QInit ==
    /\ \E quota \in Size, enforced \in BOOLEAN : q = StaticQuotaNew(quota, enforced)
    /\ qlast = NoCall
    /\ qghost = [net |-> 0, overFreed |-> FALSE, quotaSet |-> FALSE]

\* A caller calls Allocate(requested, minimal), with minimal <= requested.
QAllocate ==
    \E requested \in Size : \E minimal \in 0..requested :
        LET r == QuotaAllocate(q, requested, minimal)
        IN  /\ q' = r.q
            /\ qlast' = [op |-> "Allocate", requested |-> requested,
                         minimal |-> minimal, usage |-> q.usage_,
                         ret |-> r.ret, logged |-> FALSE]
            /\ qghost' = [qghost EXCEPT !.net = @ + r.ret]

\* A caller calls Free(amount); nothing stops it from returning more than it got.
QFree ==
    \E amount \in Size :
        LET r == QuotaFree(q, amount)
        IN  /\ qghost.net - amount >= -MaxDebt
            /\ q' = r.q
            /\ qlast' = [op |-> "Free", requested |-> amount, minimal |-> 0,
                         usage |-> q.usage_, ret |-> 0, logged |-> r.logged]
            /\ qghost' = [qghost EXCEPT !.net = @ - amount,
                                        !.overFreed = @ \/ amount > q.usage_]

QAvailable ==
    /\ qlast' = [NoCall EXCEPT !.op = "Available", !.usage = q.usage_,
                               !.ret = QuotaAvailable(q)]
    /\ UNCHANGED <<q, qghost>>

QGetUsage ==
    /\ qlast' = [NoCall EXCEPT !.op = "GetUsage", !.usage = q.usage_,
                               !.ret = QuotaGetUsage(q)]
    /\ UNCHANGED <<q, qghost>>

QGetQuota ==
    /\ qlast' = [NoCall EXCEPT !.op = "GetQuota", !.usage = q.usage_,
                               !.ret = QuotaGetQuota(q)]
    /\ UNCHANGED <<q, qghost>>

QSetQuota ==
    \E quota \in Size :
        /\ q' = StaticQuotaSetQuota(q, quota)
        /\ qlast' = [NoCall EXCEPT !.op = "SetQuota", !.requested = quota,
                                   !.usage = q.usage_]
        /\ qghost' = [qghost EXCEPT !.quotaSet = TRUE]

QNext ==
    \/ QAllocate /\ UNCHANGED <<nvars, tvars, xvars>>
    \/ QFree /\ UNCHANGED <<nvars, tvars, xvars>>
    \/ QAvailable /\ UNCHANGED <<nvars, tvars, xvars>>
    \/ QGetUsage /\ UNCHANGED <<nvars, tvars, xvars>>
    \/ QGetQuota /\ UNCHANGED <<nvars, tvars, xvars>>
    \/ QSetQuota /\ UNCHANGED <<nvars, tvars, xvars>>

-----------------------------------------------------------------------------
(* The allocators used by one caller through the entry node of a chain.     *)

\* The limit given to the MemoryLimit nodes of the chains.
QuotaLimit == 2

\* How many Buffers the caller holds at a time.
MaxBlocks == 2

\* What malloc can provide during a call: everything, or one byte.
HeapRooms == {1, SizeMax}

BaseChains ==
    {<<MemoryLimitNode(QuotaLimit, e), HeapNode>> : e \in BOOLEAN}

HardChain == <<MemoryLimitNode(QuotaLimit, TRUE), HeapNode>>

\* The chains the caller may have built: each class of node on top of the
\* heap or of a MemoryLimit.
Chains ==
    {<<HeapNode>>, <<ClearingNode, HeapNode>>}
    \cup BaseChains
    \cup {SoftQuotaBypassingNodes(b) \o c :
             b \in {QuotaLimit - 1, QuotaLimit + 1}, c \in BaseChains}
    \cup {<<StatsNode>> \o HardChain, <<ThreadSafeNode>> \o HardChain,
          <<OwningNode>> \o HardChain}
    \cup {<<MemoryTrackingNode(e, QuotaLimit), HeapNode>> : e \in BOOLEAN}
    \cup {GuaranteeMemoryNodes(QuotaLimit) \o <<HeapNode>>,
          GuaranteeMemoryNodes(QuotaLimit + 1) \o HardChain}

NoNodeCall == [op |-> "none", requested |-> 0, minimal |-> 0, buf |-> NoBuffer,
               ev |-> <<>>, oom |-> FALSE, avail |-> 0,
               size |-> 0, after |-> 0, data |-> "same"]

NInit ==
    /\ chain \in Chains
    /\ blocks = EmptyBag
    /\ last = NoNodeCall

\* The caller calls BestEffortAllocate(requested, minimal) on the entry node.
NAllocate ==
    \E requested \in Size : \E minimal \in 0..requested : \E room \in HeapRooms :
        LET r == BestEffortAllocate(chain, 1, requested, minimal, room)
        IN  /\ BagCardinality(blocks) < MaxBlocks
            /\ chain' = r.ch
            /\ blocks' = IF r.buf = NoBuffer
                         THEN blocks
                         ELSE blocks (+) SetToBag({Buffer(r.buf,
                                                  OriginatorAtHeap(chain, 1, 1))})
            /\ last' = [NoNodeCall EXCEPT !.op = "Allocate", !.requested = requested,
                                          !.minimal = minimal, !.buf = r.buf,
                                          !.ev = r.ev, !.oom = r.oom]

\* Whether the chain has a node of the given class.
HasNode(ch, kind) == \E i \in DOMAIN ch : ch[i].kind = kind

\* The caller destroys a Buffer: Buffer::~Buffer calls FreeInternal on the
\* buffer's allocator_.
NFree ==
    \E b \in BagToSet(blocks) :
        LET r == FreeInternal(chain, b.allocator_, b.size_)
        IN  /\ chain' = r.ch
            /\ blocks' = blocks (-) SetToBag({b})
            /\ last' = [NoNodeCall EXCEPT !.op = "Free", !.requested = b.size_,
                                          !.ev = r.ev]

\* The caller calls Available() on the entry node.
NAvailable ==
    /\ last' = [NoNodeCall EXCEPT !.op = "Available",
                                  !.avail = Available(chain, 1)]
    /\ UNCHANGED <<chain, blocks>>

NNext ==
    \/ NAllocate /\ UNCHANGED <<qvars, tvars, xvars>>
    \/ NFree /\ UNCHANGED <<qvars, tvars, xvars>>
    \/ NAvailable /\ UNCHANGED <<qvars, tvars, xvars>>

\* How many Buffers the caller holds at a time when it also reallocates them.
MaxReallocBlocks == 1

\* The largest size that caller asks for.
MaxReallocRequest == 2

\* The chains whose every node has a ReallocateInternal to model.
ReallocChains == {c \in Chains : ~HasNode(c, "MemoryTracking")}

RInit ==
    /\ chain \in ReallocChains
    /\ blocks = EmptyBag
    /\ last = NoNodeCall

\* The caller calls BestEffortAllocate(requested, minimal) on the entry node.
RAllocate ==
    \E requested \in 0..MaxReallocRequest : \E minimal \in 0..requested :
    \E room \in HeapRooms :
        LET r == BestEffortAllocate(chain, 1, requested, minimal, room)
        IN  /\ BagCardinality(blocks) < MaxReallocBlocks
            /\ chain' = r.ch
            /\ blocks' = IF r.buf = NoBuffer
                         THEN blocks
                         ELSE blocks (+) SetToBag({Buffer(r.buf,
                                                  OriginatorAtHeap(chain, 1, 1))})
            /\ last' = [NoNodeCall EXCEPT !.op = "Allocate", !.requested = requested,
                                          !.minimal = minimal, !.buf = r.buf,
                                          !.ev = r.ev, !.oom = r.oom]

\* The caller calls BestEffortReallocate(requested, minimal, buffer) on the
\* entry node, for a Buffer it holds: last.size and last.after are the buffer's
\* size_ before and after the call, last.data tells whether its data_ moved.
RReallocate ==
    \E b \in BagToSet(blocks) :
    \E requested \in 0..MaxReallocRequest : \E minimal \in 0..requested :
    \E room \in HeapRooms :
        LET r == BestEffortReallocate(chain, 1, requested, minimal, b.size_, room)
        IN  /\ chain' = r.ch
            /\ blocks' = (blocks (-) SetToBag({b}))
                              (+) SetToBag({IF r.buf # NoBuffer
                                            THEN Update(b, r.size)
                                            ELSE b})
            /\ last' = [NoNodeCall EXCEPT !.op = "Reallocate", !.requested = requested,
                                          !.minimal = minimal, !.buf = r.buf,
                                          !.ev = r.ev, !.oom = r.oom,
                                          !.size = b.size_, !.after = r.size,
                                          !.data = r.data]

RNext ==
    \/ RAllocate /\ UNCHANGED <<qvars, tvars, xvars>>
    \/ RReallocate /\ UNCHANGED <<qvars, tvars, xvars>>
    \/ NFree /\ UNCHANGED <<qvars, tvars, xvars>>

\* A GuaranteeMemory over a heap that has room for every request.
GInit ==
    /\ \E G \in {QuotaLimit, QuotaLimit + 1} :
           chain = GuaranteeMemoryNodes(G) \o <<HeapNode>>
    /\ blocks = EmptyBag
    /\ last = NoNodeCall

\* The caller calls BestEffortAllocate(requested, minimal) on the
\* GuaranteeMemory; malloc provides whatever it is asked for.
GAllocate ==
    \E requested \in Size : \E minimal \in 0..requested :
        LET r == BestEffortAllocate(chain, 1, requested, minimal, SizeMax)
        IN  /\ BagCardinality(blocks) < MaxBlocks
            /\ chain' = r.ch
            /\ blocks' = IF r.buf = NoBuffer
                         THEN blocks
                         ELSE blocks (+) SetToBag({Buffer(r.buf,
                                                  OriginatorAtHeap(chain, 1, 1))})
            /\ last' = [NoNodeCall EXCEPT !.op = "Allocate", !.requested = requested,
                                          !.minimal = minimal, !.buf = r.buf,
                                          !.ev = r.ev, !.oom = r.oom]

GNext ==
    \/ GAllocate /\ UNCHANGED <<qvars, tvars, xvars>>
    \/ NFree /\ UNCHANGED <<qvars, tvars, xvars>>
    \/ NAvailable /\ UNCHANGED <<qvars, tvars, xvars>>

(***************************************************************************)
(* A MemoryStatisticsCollectingBufferAllocator and its collector.  log is  *)
(* the collector: the calls made on it, in the order they were made.       *)
(***************************************************************************)
MaxLog == 3

StatsChains ==
    { <<StatsNode, HeapNode>>, <<StatsNode>> \o HardChain }

SInit ==
    /\ chain \in StatsChains
    /\ blocks = EmptyBag
    /\ last = NoNodeCall
    /\ log = <<>>
    /\ data_ = <<>>

SAllocate ==
    /\ Len(log) < MaxLog
    /\ NAllocate
    /\ log' = log \o last'.ev

SFree ==
    /\ Len(log) < MaxLog
    /\ NFree
    /\ log' = log \o last'.ev

SNext ==
    \/ SAllocate /\ UNCHANGED <<qvars, tvars, data_, svars>>
    \/ SFree /\ UNCHANGED <<qvars, tvars, data_, svars>>

(***************************************************************************)
(* An OwningBufferAllocator, the objects given to it and its destruction.  *)
(* log is what the one who built it sees: every Add() made and every       *)
(* delete of an owned object, in order.  Calls are made on it while it     *)
(* lives.                                                                  *)
(***************************************************************************)
MaxOwned == 2

Owned == 1..MaxOwned

RECURSIVE Reverse(_)
Reverse(seq) ==
    IF seq = <<>> THEN <<>> ELSE Reverse(Tail(seq)) \o <<Head(seq)>>

\* A destructor that deletes from the front of owned_.
DeleteOwned_FromFront(owned_) ==
    [k \in 1..Len(owned_) |-> [e |-> "Delete", p |-> owned_[k]]]

\* ~OwningBufferAllocator: while owned_ is not empty, take owned_.back(),
\* pop it and delete it.  The value is the deletes made, in order.
RECURSIVE DeleteOwned(_)
DeleteOwned(owned_) ==
    IF owned_ = <<>>
    THEN <<>>
    ELSE <<[e |-> "Delete", p |-> owned_[Len(owned_)]]>>
             \o DeleteOwned(SubSeq(owned_, 1, Len(owned_) - 1))

OwningChains ==
    { <<OwningNode>> \o c : c \in {<<HeapNode>>, HardChain} }

OInit ==
    /\ chain \in OwningChains
    /\ blocks = EmptyBag
    /\ last = NoNodeCall
    /\ log = <<>>
    /\ data_ = <<>>

Alive == chain[1].kind = "Owning"

\* Add(p), for an object not given away before: owned_.push_back(p).
OAdd ==
    \E p \in Owned :
        /\ Alive
        /\ \A k \in 1..Len(chain[1].owned_) : chain[1].owned_[k] # p
        /\ chain' = [chain EXCEPT ![1].owned_ = Append(@, p)]
        /\ log' = Append(log, [e |-> "Add", p |-> p])
        /\ UNCHANGED <<blocks, last>>

\* The allocator is destroyed, after the Buffers it handed out: the delegate
\* is not owned and stays.
ODestroy ==
    /\ Alive
    /\ blocks = EmptyBag
    /\ log' = log \o DeleteOwned(chain[1].owned_)
    /\ chain' = Tail(chain)
    /\ UNCHANGED <<blocks, last>>

ONext ==
    \/ OAdd /\ UNCHANGED <<qvars, tvars, data_, svars>>
    \/ ODestroy /\ UNCHANGED <<qvars, tvars, data_, svars>>
    \/ Alive /\ RAllocate /\ UNCHANGED <<qvars, tvars, xvars>>
    \/ Alive /\ RReallocate /\ UNCHANGED <<qvars, tvars, xvars>>
    \/ Alive /\ NFree /\ UNCHANGED <<qvars, tvars, xvars>>
    \/ Alive /\ NAvailable /\ UNCHANGED <<qvars, tvars, xvars>>

(***************************************************************************)
(* A ClearingBufferAllocator and the bytes of the one Buffer its caller    *)
(* holds.  A byte is 0 or 1; what the heap hands out is not initialized,   *)
(* so it may hold anything.                                                *)
(***************************************************************************)
Byte == {0, 1}

Garbage == [1..(MaxReallocRequest + 1) -> Byte]

\* The heap's new block: size bytes, holding whatever was there.
HeapAllocateData(size, garbage) == [k \in 1..size |-> garbage[k]]

\* The heap's resized block: the bytes kept are the old ones, the bytes
\* gained hold whatever was there.
HeapReallocateData(bytes, size, garbage) ==
    [k \in 1..size |-> IF k <= Len(bytes) THEN bytes[k] ELSE garbage[k]]

\* A clearing node that leaves the new block as the delegate handed it out.
ClearingAllocateData_Untouched(bytes) == bytes

\* After the delegate's allocation: zero [0, size).
ClearingAllocateData(bytes) == [k \in 1..Len(bytes) |-> 0]

\* A clearing node that zeroes the whole block after a reallocation.
ClearingReallocateData_ClearsAll(bytes, old_size) == [k \in 1..Len(bytes) |-> 0]

\* After the delegate's growing reallocation: zero [old_size, new_size) only.
ClearingReallocateData(bytes, old_size) ==
    [k \in 1..Len(bytes) |-> IF k > old_size THEN 0 ELSE bytes[k]]

\* The bytes of the Buffer of `size` bytes that node i of ch returns.
RECURSIVE DataAfterAllocate(_, _, _, _)
DataAfterAllocate(ch, i, size, garbage) ==
    CASE ch[i].kind = "Heap" -> HeapAllocateData(size, garbage)
      [] ch[i].kind = "Clearing" ->
             ClearingAllocateData(DataAfterAllocate(ch, i + 1, size, garbage))
      [] OTHER -> DataAfterAllocate(ch, i + 1, size, garbage)

\* The bytes of a Buffer that held `bytes` after node i of ch has reallocated
\* it: ok tells whether the call succeeded, size is the buffer's size after it.
RECURSIVE DataAfterReallocate(_, _, _, _, _, _)
DataAfterReallocate(ch, i, bytes, ok, size, garbage) ==
    CASE ch[i].kind = "Heap" ->
             IF ok THEN HeapReallocateData(bytes, size, garbage) ELSE bytes
      [] ch[i].kind = "Clearing" ->
             LET inner == DataAfterReallocate(ch, i + 1, bytes, ok, size, garbage)
             IN  IF ok /\ size > Len(bytes)
                 THEN ClearingReallocateData(inner, Len(bytes))
                 ELSE inner
      [] OTHER -> DataAfterReallocate(ch, i + 1, bytes, ok, size, garbage)

ClearingChains ==
    { <<ClearingNode>> \o c : c \in {<<HeapNode>>, HardChain} }

CInit ==
    /\ chain \in ClearingChains
    /\ blocks = EmptyBag
    /\ last = NoNodeCall
    /\ log = <<>>
    /\ data_ = <<>>

\* BestEffortAllocate while the caller holds no Buffer.
CAllocate ==
    /\ blocks = EmptyBag
    /\ RAllocate
    /\ \E garbage \in Garbage :
           data_' = IF last'.buf = NoBuffer
                    THEN data_
                    ELSE DataAfterAllocate(chain, 1, last'.buf, garbage)

\* BestEffortReallocate of the Buffer the caller holds.
CReallocate ==
    /\ RReallocate
    /\ \E garbage \in Garbage :
           data_' = DataAfterReallocate(chain, 1, data_, last'.buf # NoBuffer,
                                        last'.after, garbage)

\* The caller writes a byte of its Buffer.
CWrite ==
    \E k \in 1..Len(data_) : \E v \in Byte :
        /\ data_' = [data_ EXCEPT ![k] = v]
        /\ last' = [NoNodeCall EXCEPT !.op = "Write"]
        /\ UNCHANGED <<chain, blocks>>

\* The caller deletes its Buffer.
CFree ==
    /\ NFree
    /\ data_' = <<>>

CNext ==
    \/ CAllocate /\ UNCHANGED <<qvars, tvars, log, svars>>
    \/ CReallocate /\ UNCHANGED <<qvars, tvars, log, svars>>
    \/ CWrite /\ UNCHANGED <<qvars, tvars, log, svars>>
    \/ CFree /\ UNCHANGED <<qvars, tvars, log, svars>>

\* The quota's variables while the chain is what runs.
QIdle ==
    /\ q = StaticQuotaNew(0, TRUE)
    /\ qlast = NoCall
    /\ qghost = [net |-> 0, overFreed |-> FALSE, quotaSet |-> FALSE]

\* The chain's variables while the quota alone is what runs.
NIdle ==
    /\ chain = <<>>
    /\ blocks = EmptyBag
    /\ last = NoNodeCall

-----------------------------------------------------------------------------
(* Several threads calling one ThreadSafeMemoryLimit: a                     *)
(* ThreadSafeBufferAllocator (chain[1]) over a MemoryLimit (chain[2], with  *)
(* its unsynchronized StaticQuota<false>) over the heap (chain[3]).  Each   *)
(* step below is one access to the shared memory, so that what keeps a call *)
(* whole is the wrapper's mutex and nothing else.                           *)

\* The number of threads.
NumThreads == 2

\* The number of calls the threads make between them.
MaxCalls == 2

\* The largest size a thread asks for.
MaxThreadRequest == 2

Threads == 1..NumThreads

\* A mutant of MutexAcquirable: the guard locks nothing, as lock_guard_maybe
\* does when it is handed a null mutex.
MutexAcquirable_NullMutex(m, t) == TRUE

\* lock_guard_maybe<Mutex> lock(mutex()): the constructor returns once no
\* other thread holds the mutex.
MutexAcquirable(m, t) == m = 0

RECURSIVE CallsMade(_, _)
CallsMade(h, n) == IF n = 0 THEN 0 ELSE h[n].calls + CallsMade(h, n - 1)

NoLocals == [pc |-> "idle", op |-> "none", requested |-> 0, minimal |-> 0,
             room |-> 0, size |-> 0, allocation |-> 0, tmp |-> 0, result |-> NoBuffer,
             snap |-> <<>>]

ThreadSafeMemoryLimitChain(quota) ==
    <<ThreadSafeNode, MemoryLimitNode(quota, TRUE), HeapNode>>

TInit ==
    /\ \E quota \in (NumThreads - 1)..(NumThreads + 1) :
           chain = ThreadSafeMemoryLimitChain(quota)
    /\ blocks = EmptyBag
    /\ last = NoNodeCall
    /\ mutex = 0
    /\ th = [t \in Threads |-> NoLocals]
    /\ hist = [t \in Threads |-> [calls |-> 0, ones |-> TRUE]]

\* An entry node that takes no lock.
Synchronized_Never(node) == FALSE

\* Whether the entry node's AllocateInternal and FreeInternal hold a lock
\* guard around the call of the delegate: ThreadSafeBufferAllocator's do,
\* those of the other decorators do not.
Synchronized(node) == node.kind = "ThreadSafe"

\* The start of a call by thread t, in ThreadSafeBufferAllocator's
\* AllocateInternal, FreeInternal or Available: the lock guard is taken, and
\* the delegate is about to be called.
TEnter(t) ==
    /\ th[t].pc = "idle"
    /\ CallsMade(hist, NumThreads) < MaxCalls
    /\ Synchronized(chain[1]) => MutexAcquirable(mutex, t)
    /\ mutex' = IF Synchronized(chain[1]) THEN t ELSE mutex

\* Thread t calls BestEffortAllocate(requested, minimal) on the wrapper.
TCallAllocate(t) ==
    \E requested \in 0..MaxThreadRequest : \E minimal \in 0..requested :
    \E room \in HeapRooms :
        /\ TEnter(t)
        /\ th' = [th EXCEPT ![t] = [NoLocals EXCEPT !.pc = "check", !.op = "Allocate",
                                       !.requested = requested,
                                       !.minimal = minimal, !.room = room,
                                       !.snap = chain]]
        /\ hist' = [hist EXCEPT ![t] = [calls |-> @.calls + 1,
                                        ones |-> @.ones /\ requested = 1 /\ minimal = 1]]
        /\ UNCHANGED <<chain, blocks, last>>

\* Thread t calls BestEffortReallocate(requested, minimal, buffer) on the
\* wrapper, for a buffer it was handed earlier.
TCallReallocate(t) ==
    \E b \in BagToSet(blocks) :
    \E requested \in 0..MaxThreadRequest : \E minimal \in 0..requested :
    \E room \in HeapRooms :
        /\ TEnter(t)
        /\ blocks' = blocks (-) SetToBag({b})
        /\ th' = [th EXCEPT ![t] = [NoLocals EXCEPT !.pc = "check", !.op = "Reallocate",
                                       !.requested = requested,
                                       !.minimal = minimal, !.room = room,
                                       !.size = b.size_, !.snap = chain]]
        /\ hist' = [hist EXCEPT ![t] = [calls |-> @.calls + 1, ones |-> FALSE]]
        /\ UNCHANGED <<chain, last>>

\* Thread t destroys a Buffer: FreeInternal(buffer) on the wrapper.
TCallFree(t) ==
    \E b \in BagToSet(blocks) :
        /\ TEnter(t)
        /\ blocks' = blocks (-) SetToBag({b})
        /\ th' = [th EXCEPT ![t] = [NoLocals EXCEPT !.pc = "heapfree", !.op = "Free",
                                       !.size = b.size_, !.snap = chain]]
        /\ hist' = [hist EXCEPT ![t] = [calls |-> @.calls + 1, ones |-> FALSE]]
        /\ UNCHANGED <<chain, last>>

\* Thread t calls Available() on the wrapper.
TCallAvailable(t) ==
    /\ TEnter(t)
    /\ th' = [th EXCEPT ![t] = [NoLocals EXCEPT !.pc = "available", !.op = "Available",
                                   !.snap = chain]]
    /\ hist' = [hist EXCEPT ![t] = [calls |-> @.calls + 1, ones |-> FALSE]]
    /\ UNCHANGED <<chain, blocks, last>>

\* Quota<false>::Allocate, up to "usage_ += allocation": usage_ and the quota
\* are read and the allocation decided.
TQuotaCheck(t) ==
    /\ th[t].pc = "check"
    /\ th' = [th EXCEPT ![t].allocation =
                            QuotaAllocation(chain[2].quota_.usage_,
                                            chain[2].quota_.quota_,
                                            chain[2].quota_.enforced_,
                                            th[t].requested, th[t].minimal),
                        ![t].pc = "load"]
    /\ UNCHANGED <<chain, blocks, last, mutex, hist>>

\* "usage_ += allocation" and "usage_ -= amount": usage_ is read ...
TUsageLoad(t) ==
    /\ th[t].pc \in {"load", "freeload"}
    /\ th' = [th EXCEPT ![t].tmp = chain[2].quota_.usage_,
                        ![t].pc = IF th[t].pc = "load" THEN "store" ELSE "freestore"]
    /\ UNCHANGED <<chain, blocks, last, mutex, hist>>

\* ... and written back: Quota<false>::Allocate returns the allocation.
TQuotaStore(t) ==
    /\ th[t].pc = "store"
    /\ chain' = [chain EXCEPT ![2].quota_.usage_ = AddSz(th[t].tmp, th[t].allocation)]
    /\ th' = [th EXCEPT ![t].pc = "delegate"]
    /\ UNCHANGED <<blocks, last, mutex, hist>>

\* MediatingBufferAllocator's AllocateInternal and ReallocateInternal after
\* the mediator's answer: a denial returns, else the heap is asked for exactly
\* the grant.
TDelegate(t) ==
    /\ th[t].pc = "delegate"
    /\ th' = [th EXCEPT ![t].result =
                            IF th[t].allocation = 0 /\ th[t].minimal > 0
                            THEN NoBuffer
                            ELSE IF th[t].op = "Allocate"
                            THEN HeapAllocateInternal(chain, 3, th[t].allocation,
                                                      th[t].allocation, 1,
                                                      th[t].room).buf
                            ELSE HeapReallocateInternal(chain, 3, th[t].allocation,
                                                        th[t].allocation, th[t].size,
                                                        1, th[t].room).buf,
                        ![t].pc = "unlock"]
    /\ UNCHANGED <<chain, blocks, last, mutex, hist>>

\* MediatingBufferAllocator::FreeInternal: the heap frees the buffer, then
\* Quota<false>::Free is called.
THeapFree(t) ==
    /\ th[t].pc = "heapfree"
    /\ th' = [th EXCEPT ![t].pc = "freeload"]
    /\ UNCHANGED <<chain, blocks, last, mutex, hist>>

\* Quota<false>::Free: "usage_ -= amount" is written back.
TFreeStore(t) ==
    /\ th[t].pc = "freestore"
    /\ chain' = [chain EXCEPT ![2].quota_.usage_ = SubSz(th[t].tmp, th[t].size)]
    /\ th' = [th EXCEPT ![t].pc = "unlock"]
    /\ UNCHANGED <<blocks, last, mutex, hist>>

\* MemoryLimit::Available, called by ThreadSafeBufferAllocator::Available.
TAvailable(t) ==
    /\ th[t].pc = "available"
    /\ th' = [th EXCEPT ![t].result = Available(chain, 2), ![t].pc = "unlock"]
    /\ UNCHANGED <<chain, blocks, last, mutex, hist>>

\* The call returns: the lock guard is destroyed and the caller has its result.
TUnlock(t) ==
    /\ th[t].pc = "unlock"
    /\ mutex' = IF Synchronized(chain[1]) THEN 0 ELSE mutex
    /\ blocks' = CASE th[t].op = "Allocate" /\ th[t].result # NoBuffer ->
                          blocks (+) SetToBag({Buffer(th[t].result, 1)})
                    [] th[t].op = "Reallocate" /\ th[t].result # NoBuffer ->
                          blocks (+) SetToBag({Buffer(th[t].result, 1)})
                    [] th[t].op = "Reallocate" /\ th[t].result = NoBuffer ->
                          blocks (+) SetToBag({Buffer(th[t].size, 1)})
                    [] OTHER -> blocks
    /\ th' = [th EXCEPT ![t] = NoLocals]
    /\ UNCHANGED <<chain, last, hist>>

TNext ==
    \E t \in Threads :
        \/ TCallAllocate(t) /\ UNCHANGED <<qvars, xvars>>
        \/ TCallReallocate(t) /\ UNCHANGED <<qvars, xvars>>
        \/ TCallFree(t) /\ UNCHANGED <<qvars, xvars>>
        \/ TCallAvailable(t) /\ UNCHANGED <<qvars, xvars>>
        \/ TQuotaCheck(t) /\ UNCHANGED <<qvars, xvars>>
        \/ TUsageLoad(t) /\ UNCHANGED <<qvars, xvars>>
        \/ TQuotaStore(t) /\ UNCHANGED <<qvars, xvars>>
        \/ TDelegate(t) /\ UNCHANGED <<qvars, xvars>>
        \/ THeapFree(t) /\ UNCHANGED <<qvars, xvars>>
        \/ TFreeStore(t) /\ UNCHANGED <<qvars, xvars>>
        \/ TAvailable(t) /\ UNCHANGED <<qvars, xvars>>
        \/ TUnlock(t) /\ UNCHANGED <<qvars, xvars>>

(***************************************************************************)
(* rw_semaphore.  state_ holds the number of readers in its low bits and   *)
(* the write flag in its top bit; every load, compare-and-swap and store   *)
(* of state_ is a step of its own, and a thread that finds its             *)
(* compare-and-swap failed or readers pending yields and tries again.      *)
(***************************************************************************)
ReaderBits == 2

SemThreads == 2

MaxReentry == 2

kWriteFlag == 2 ^ ReaderBits

kNumReadersMask == kWriteFlag - 1

SemThreadIds == 1..SemThreads

\* state & kNumReadersMask and state & kWriteFlag.
NumReaders(state) == state % kWriteFlag

WriteFlagSet(state) == state >= kWriteFlag

\* A lock_shared that expects the state as it is, write flag included.
LockSharedExpected_KeepsFlag(cur_state) == cur_state

\* lock_shared: expected = cur_state & kNumReadersMask ("I expect no write lock").
LockSharedExpected(cur_state) == NumReaders(cur_state)

\* An unlock_shared that expects the state without the write flag.
UnlockSharedExpected_NoFlag(cur_state) == NumReaders(cur_state)

\* unlock_shared: expected = cur_state ("I expect a write lock and other
\* readers").
UnlockSharedExpected(cur_state) == cur_state

\* A WaitPendingReaders that does not look at the readers.
PendingReaders_None(state) == FALSE

\* WaitPendingReaders' loop condition.
PendingReaders(state) == NumReaders(state) > 0

SemIdleThread == [pc |-> "idle", cur_state |-> 0, shared |-> 0, writer |-> FALSE]

SemInit ==
    /\ state_ = 0
    /\ sem = [t \in SemThreadIds |-> SemIdleThread]

\* The shared locks held and being taken.
RECURSIVE SharedWanted(_)
SharedWanted(T) ==
    IF T = {} THEN 0
    ELSE LET t == CHOOSE x \in T : TRUE
         IN  sem[t].shared + (IF sem[t].pc = "lock_shared" THEN 1 ELSE 0)
                 + SharedWanted(T \ {t})

\* A thread enters lock_shared, unlock_shared, try_lock or lock and loads
\* state_ into cur_state.  A thread unlocks what it holds, takes the write
\* lock only while it holds nothing, and may take the read lock again while
\* it holds it.
SemCall(t, op) ==
    /\ sem[t].pc = "idle"
    /\ CASE op = "lock_shared" ->
                /\ ~sem[t].writer
                /\ sem[t].shared < MaxReentry
                /\ SharedWanted(SemThreadIds) < kNumReadersMask
         [] op = "unlock_shared" -> sem[t].shared > 0
         [] op \in {"lock", "try_lock"} -> ~sem[t].writer /\ sem[t].shared = 0
    /\ sem' = [sem EXCEPT ![t].pc = op, ![t].cur_state = state_]
    /\ UNCHANGED state_

\* One turn of lock_shared's loop: the compare-and-swap, and the break or
\* the yield.
SemLockSharedCAS(t) ==
    /\ sem[t].pc = "lock_shared"
    /\ LET expected == LockSharedExpected(sem[t].cur_state)
       IN  IF state_ = expected
           THEN /\ state_' = expected + 1
                /\ sem' = [sem EXCEPT ![t].pc = "idle", ![t].cur_state = expected,
                                      ![t].shared = @ + 1]
           ELSE /\ sem' = [sem EXCEPT ![t].cur_state = state_]
                /\ UNCHANGED state_

\* One turn of unlock_shared's loop.
SemUnlockSharedCAS(t) ==
    /\ sem[t].pc = "unlock_shared"
    /\ LET expected == UnlockSharedExpected(sem[t].cur_state)
       IN  IF state_ = expected
           THEN /\ state_' = expected - 1
                /\ sem' = [sem EXCEPT ![t].pc = "idle", ![t].shared = @ - 1]
           ELSE /\ sem' = [sem EXCEPT ![t].cur_state = state_]
                /\ UNCHANGED state_

\* One turn of lock's loop; after the break comes WaitPendingReaders.
SemLockCAS(t) ==
    /\ sem[t].pc = "lock"
    /\ LET expected == NumReaders(sem[t].cur_state)
       IN  IF state_ = expected
           THEN /\ state_' = kWriteFlag + expected
                /\ sem' = [sem EXCEPT ![t].pc = "wait", ![t].cur_state = expected]
           ELSE /\ sem' = [sem EXCEPT ![t].cur_state = state_]
                /\ UNCHANGED state_

\* A try_lock that returns true as soon as it has set the write flag.
SemTryLockCAS_NoWait(t) ==
    /\ sem[t].pc = "try_lock"
    /\ IF WriteFlagSet(sem[t].cur_state)
       THEN /\ sem' = [sem EXCEPT ![t].pc = "idle"]
            /\ UNCHANGED state_
       ELSE LET expected == NumReaders(sem[t].cur_state)
            IN  IF state_ = expected
                THEN /\ state_' = kWriteFlag + expected
                     /\ sem' = [sem EXCEPT ![t].pc = "idle", ![t].writer = TRUE,
                                           ![t].cur_state = expected]
                ELSE /\ sem' = [sem EXCEPT ![t].cur_state = state_]
                     /\ UNCHANGED state_

\* One turn of try_lock's loop: false if cur_state has the write flag.
SemTryLockCAS(t) ==
    /\ sem[t].pc = "try_lock"
    /\ IF WriteFlagSet(sem[t].cur_state)
       THEN /\ sem' = [sem EXCEPT ![t].pc = "idle"]
            /\ UNCHANGED state_
       ELSE LET expected == NumReaders(sem[t].cur_state)
            IN  IF state_ = expected
                THEN /\ state_' = kWriteFlag + expected
                     /\ sem' = [sem EXCEPT ![t].pc = "wait",
                                           ![t].cur_state = expected]
                ELSE /\ sem' = [sem EXCEPT ![t].cur_state = state_]
                     /\ UNCHANGED state_

\* One turn of WaitPendingReaders' loop; when no reader is left, lock and
\* try_lock return with the write lock.
SemWaitPendingReaders(t) ==
    /\ sem[t].pc = "wait"
    /\ ~PendingReaders(state_)
    /\ sem' = [sem EXCEPT ![t].pc = "idle", ![t].writer = TRUE]
    /\ UNCHANGED state_

\* unlock: Release_Store(&state_, 0).
SemUnlock(t) ==
    /\ sem[t].pc = "idle"
    /\ sem[t].writer
    /\ state_' = 0
    /\ sem' = [sem EXCEPT ![t].writer = FALSE]

SemNext ==
    \E t \in SemThreadIds :
        \/ (\E op \in {"lock_shared", "unlock_shared", "lock", "try_lock"} :
                SemCall(t, op)) /\ UNCHANGED <<qvars, nvars, tvars, log, data_>>
        \/ SemLockSharedCAS(t) /\ UNCHANGED <<qvars, nvars, tvars, log, data_>>
        \/ SemUnlockSharedCAS(t) /\ UNCHANGED <<qvars, nvars, tvars, log, data_>>
        \/ SemLockCAS(t) /\ UNCHANGED <<qvars, nvars, tvars, log, data_>>
        \/ SemTryLockCAS(t) /\ UNCHANGED <<qvars, nvars, tvars, log, data_>>
        \/ SemWaitPendingReaders(t) /\ UNCHANGED <<qvars, nvars, tvars, log, data_>>
        \/ SemUnlock(t) /\ UNCHANGED <<qvars, nvars, tvars, log, data_>>

(***************************************************************************)
(* MemoryLimits with something to see below them: a statistics collector   *)
(* (log is the collector) or a second MemoryLimit.                         *)
(***************************************************************************)
DenialChains ==
    { <<MemoryLimitNode(QuotaLimit, e), StatsNode, HeapNode>> : e \in BOOLEAN }
    \cup { <<MemoryLimitNode(QuotaLimit - 1, TRUE)>> \o HardChain }

DInit ==
    /\ chain \in DenialChains
    /\ blocks = EmptyBag
    /\ last = NoNodeCall
    /\ log = <<>>
    /\ data_ = <<>>

DAllocate ==
    /\ Len(log) < MaxLog
    /\ RAllocate
    /\ log' = log \o last'.ev

DReallocate ==
    /\ Len(log) < MaxLog
    /\ RReallocate
    /\ log' = log \o last'.ev

DFree ==
    /\ NFree
    /\ log' = IF Len(log) < MaxLog THEN log \o last'.ev ELSE log

DNext ==
    \/ DAllocate /\ UNCHANGED <<qvars, tvars, data_, svars>>
    \/ DReallocate /\ UNCHANGED <<qvars, tvars, data_, svars>>
    \/ DFree /\ UNCHANGED <<qvars, tvars, data_, svars>>

\* The rw_semaphore while no thread uses it.
SemIdle ==
    /\ state_ = 0
    /\ sem = <<>>

\* The log and the data while nothing is logged and no data is looked at.
XIdle ==
    /\ log = <<>>
    /\ data_ = <<>>
    /\ SemIdle

\* The threads' variables while one caller is what runs.
TIdle ==
    /\ mutex = 0
    /\ th = <<>>
    /\ hist = <<>>

InitThreads == TInit /\ QIdle /\ XIdle

SpecThreads == InitThreads /\ [][TNext]_vars

Init == NInit /\ QIdle /\ TIdle /\ XIdle

Spec == Init /\ [][NNext]_vars

InitQuota == QInit /\ NIdle /\ TIdle /\ XIdle

InitRealloc == RInit /\ QIdle /\ TIdle /\ XIdle

SpecRealloc == InitRealloc /\ [][RNext]_vars

InitGuarantee == GInit /\ QIdle /\ TIdle /\ XIdle

InitStats == SInit /\ QIdle /\ TIdle /\ SemIdle

SpecStats == InitStats /\ [][SNext]_vars

InitOwning == OInit /\ QIdle /\ TIdle /\ SemIdle

InitClearing == CInit /\ QIdle /\ TIdle /\ SemIdle

InitDenial == DInit /\ QIdle /\ TIdle /\ SemIdle

SpecDenial == InitDenial /\ [][DNext]_vars

(***************************************************************************)
(* Threads calling two MediatingBufferAllocators that use two thread-safe  *)
(* quotas in opposite orders: the allocator entered at 1 has chain[1]'s    *)
(* quota as its mediator and, as its delegate, an allocator mediated by    *)
(* chain[2]'s quota over the heap; the allocator entered at 2 has them the *)
(* other way round.  mutex[k] is the mutex_ of chain[k]'s quota.  Each     *)
(* step is one lock acquisition, one locked section with its release, or   *)
(* one call of a delegate.  hist counts the calls made.                    *)
(***************************************************************************)
\* The number of calls the threads make between them.
MaxMediatedCalls == 2

\* The quota that mediates at the given level of the allocator entered at
\* entry.
MediatorOf(entry, level) == IF level = 1 THEN entry ELSE 3 - entry

\* A lock guard whose destructor leaves the mutex with the thread.
LockGuardDestroyed_StillHeld(t) == t

\* ~lock_guard_maybe at the end of Quota::Allocate and Quota::Free: the owner
\* of the mutex afterwards.
LockGuardDestroyed(t) == 0

NoMediatedLocals == [pc |-> "idle", op |-> "none", entry |-> 0, level |-> 0,
                     requested |-> 0, minimal |-> 0, room |-> 0, size |-> 0]

MInit ==
    /\ \E quota \in {QuotaLimit - 1, QuotaLimit} :
           chain = <<MemoryLimitNode(QuotaLimit, TRUE),
                     MemoryLimitNode(quota, TRUE), HeapNode>>
    /\ blocks = EmptyBag
    /\ last = NoNodeCall
    /\ mutex = <<0, 0>>
    /\ th = [t \in Threads |-> NoMediatedLocals]
    /\ hist = 0

\* Thread t calls Allocate(requested) on one of the two allocators; malloc
\* provides whatever it is asked for.
MCallAllocate(t) ==
    \E entry \in 1..2 : \E requested \in 1..MaxThreadRequest :
        /\ th[t].pc = "idle"
        /\ hist < MaxMediatedCalls
        /\ th' = [th EXCEPT ![t] = [NoMediatedLocals EXCEPT
                                       !.pc = "lock", !.op = "Allocate",
                                       !.entry = entry, !.level = 1,
                                       !.requested = requested,
                                       !.minimal = requested, !.room = SizeMax]]
        /\ hist' = hist + 1
        /\ UNCHANGED <<chain, blocks, last, mutex>>

\* Thread t destroys a Buffer: FreeInternal on the allocator that handed it
\* out, which passes it down to the heap, which frees it, before any mediator
\* is credited.
MCallFree(t) ==
    \E b \in BagToSet(blocks) :
        /\ th[t].pc = "idle"
        /\ hist < MaxMediatedCalls
        /\ blocks' = blocks (-) SetToBag({b})
        /\ th' = [th EXCEPT ![t] = [NoMediatedLocals EXCEPT
                                       !.pc = "flock", !.op = "Free",
                                       !.entry = b.allocator_, !.level = 2,
                                       !.size = b.size_]]
        /\ hist' = hist + 1
        /\ UNCHANGED <<chain, last, mutex>>

\* lock_guard_maybe<Mutex> lock(mutex()) at the head of Quota<true>::Allocate
\* and Quota<true>::Free.
MLock(t) ==
    LET k == MediatorOf(th[t].entry, th[t].level)
    IN  /\ th[t].pc \in {"lock", "flock"}
        /\ MutexAcquirable(mutex[k], t)
        /\ mutex' = [mutex EXCEPT ![k] = t]
        /\ th' = [th EXCEPT ![t].pc = IF th[t].pc = "lock" THEN "alloc" ELSE "free"]
        /\ UNCHANGED <<chain, blocks, last, hist>>

\* Quota<true>::Allocate under its mutex, up to its return, and what
\* MediatingBufferAllocator::AllocateInternal does with the answer before it
\* next touches anything shared: a denial returns NULL to the thread, a grant
\* at the outer allocator calls the delegate (which goes for its mediator's
\* mutex), a grant at the inner one asks the heap for exactly the grant and
\* returns.
MQuotaAllocate(t) ==
    LET k == MediatorOf(th[t].entry, th[t].level)
        r == QuotaAllocate(chain[k].quota_, th[t].requested, th[t].minimal)
        buf == HeapAllocateInternal(chain, 3, r.ret, r.ret, th[t].entry,
                                    th[t].room).buf
    IN  /\ th[t].pc = "alloc"
        /\ chain' = [chain EXCEPT ![k].quota_ = r.q]
        /\ mutex' = [mutex EXCEPT ![k] = LockGuardDestroyed(t)]
        /\ IF r.ret = 0 /\ th[t].minimal > 0
           THEN /\ th' = [th EXCEPT ![t] = NoMediatedLocals]
                /\ blocks' = blocks
           ELSE IF th[t].level = 1
           THEN /\ th' = [th EXCEPT ![t].level = 2, ![t].requested = r.ret,
                                    ![t].minimal = r.ret, ![t].pc = "lock"]
                /\ blocks' = blocks
           ELSE /\ th' = [th EXCEPT ![t] = NoMediatedLocals]
                /\ blocks' = IF buf # NoBuffer
                             THEN blocks (+) SetToBag({Buffer(buf, th[t].entry)})
                             ELSE blocks
        /\ UNCHANGED <<last, hist>>

\* Quota<true>::Free under its mutex, up to its return: the inner allocator's
\* mediator first, then the outer one's, after which the call returns.
MQuotaFree(t) ==
    LET k == MediatorOf(th[t].entry, th[t].level)
    IN  /\ th[t].pc = "free"
        /\ chain' = [chain EXCEPT ![k].quota_ = QuotaFree(@, th[t].size).q]
        /\ mutex' = [mutex EXCEPT ![k] = LockGuardDestroyed(t)]
        /\ th' = [th EXCEPT ![t] = IF th[t].level = 2
                                    THEN [@ EXCEPT !.level = 1, !.pc = "flock"]
                                    ELSE NoMediatedLocals]
        /\ UNCHANGED <<blocks, last, hist>>

\* A step inside a call of thread t.
MStep(t) ==
    \/ MLock(t) /\ UNCHANGED <<qvars, xvars>>
    \/ MQuotaAllocate(t) /\ UNCHANGED <<qvars, xvars>>
    \/ MQuotaFree(t) /\ UNCHANGED <<qvars, xvars>>

MNext ==
    \E t \in Threads :
        \/ MCallAllocate(t) /\ UNCHANGED <<qvars, xvars>>
        \/ MCallFree(t) /\ UNCHANGED <<qvars, xvars>>
        \/ MStep(t)

InitMediators == MInit /\ QIdle /\ XIdle

SpecMediators == InitMediators /\ [][MNext]_vars

\* The scheduler lets every thread that can take a step inside its call take
\* one.
FairSpecMediators == SpecMediators /\ \A t \in Threads : WF_vars(MStep(t))

(***************************************************************************)
(* Threads sharing one MemoryLimit, with its unsynchronized                *)
(* StaticQuota<false>, through an entry node that is either a              *)
(* ThreadSafeBufferAllocator or an OwningBufferAllocator, which passes     *)
(* every call on without a lock.  qghost.net is what the quota has granted *)
(* minus what has been returned to it.                                     *)
(***************************************************************************)
UInit ==
    /\ \E quota \in (NumThreads - 1)..NumThreads :
           chain \in {ThreadSafeMemoryLimitChain(quota),
                      <<OwningNode, MemoryLimitNode(quota, TRUE), HeapNode>>}
    /\ blocks = EmptyBag
    /\ last = NoNodeCall
    /\ mutex = 0
    /\ th = [t \in Threads |-> NoLocals]
    /\ hist = [t \in Threads |-> [calls |-> 0, ones |-> FALSE]]

\* Thread t calls Allocate(requested) on the entry node; malloc provides
\* whatever it is asked for.
UCallAllocate(t) ==
    \E requested \in 1..MaxThreadRequest :
        /\ TEnter(t)
        /\ th' = [th EXCEPT ![t] = [NoLocals EXCEPT !.pc = "check", !.op = "Allocate",
                                       !.requested = requested,
                                       !.minimal = requested, !.room = SizeMax]]
        /\ hist' = [hist EXCEPT ![t].calls = @ + 1]
        /\ UNCHANGED <<chain, blocks, last>>

\* Thread t destroys a Buffer: FreeInternal(buffer) on the entry node.
UCallFree(t) ==
    \E b \in BagToSet(blocks) :
        /\ TEnter(t)
        /\ blocks' = blocks (-) SetToBag({b})
        /\ th' = [th EXCEPT ![t] = [NoLocals EXCEPT !.pc = "heapfree", !.op = "Free",
                                       !.size = b.size_]]
        /\ hist' = [hist EXCEPT ![t].calls = @ + 1]
        /\ UNCHANGED <<chain, last>>

UNext ==
    \E t \in Threads :
        \/ UCallAllocate(t) /\ UNCHANGED <<qvars, xvars>>
        \/ UCallFree(t) /\ UNCHANGED <<qvars, xvars>>
        \/ TQuotaCheck(t) /\ UNCHANGED <<qvars, xvars>>
        \/ TUsageLoad(t) /\ UNCHANGED <<qvars, xvars>>
        \/ /\ TQuotaStore(t)
           /\ qghost' = [qghost EXCEPT !.net = @ + th[t].allocation]
           /\ UNCHANGED <<q, qlast, xvars>>
        \/ TDelegate(t) /\ UNCHANGED <<qvars, xvars>>
        \/ THeapFree(t) /\ UNCHANGED <<qvars, xvars>>
        \/ /\ TFreeStore(t)
           /\ qghost' = [qghost EXCEPT !.net = @ - th[t].size]
           /\ UNCHANGED <<q, qlast, xvars>>
        \/ TUnlock(t) /\ UNCHANGED <<qvars, xvars>>

InitUnsync == UInit /\ QIdle /\ XIdle

SpecUnsync == InitUnsync /\ [][UNext]_vars

(***************************************************************************)
(* Chains with a statistics collector (log), a quota and a tracker at      *)
(* once, called as the chains of SNext are.                                *)
(***************************************************************************)
ReleaseChains ==
    { <<StatsNode, MemoryLimitNode(QuotaLimit, e),
        MemoryTrackingNode(FALSE, QuotaLimit), HeapNode>> : e \in BOOLEAN }
    \cup { <<MemoryTrackingNode(TRUE, QuotaLimit), OwningNode, StatsNode>>
              \o HardChain }

PInit ==
    /\ chain \in ReleaseChains
    /\ blocks = EmptyBag
    /\ last = NoNodeCall
    /\ log = <<>>
    /\ data_ = <<>>

InitRelease == PInit /\ QIdle /\ TIdle /\ SemIdle

SpecRelease == InitRelease /\ [][SNext]_vars

InitSem == SemInit /\ QIdle /\ NIdle /\ TIdle /\ log = <<>> /\ data_ = <<>>

SpecSem == InitSem /\ [][SemNext]_vars

\* No thread calls lock_shared while it holds a shared lock.
NoReentrantCall ==
    \A t \in SemThreadIds :
        (sem[t].pc = "idle" /\ sem'[t].pc = "lock_shared") => sem[t].shared = 0

\* A step of thread t inside a call: one turn of the loop it is in.
SemLoopStep(t) ==
    \/ SemLockSharedCAS(t) /\ UNCHANGED <<qvars, nvars, tvars, log, data_>>
    \/ SemUnlockSharedCAS(t) /\ UNCHANGED <<qvars, nvars, tvars, log, data_>>
    \/ SemLockCAS(t) /\ UNCHANGED <<qvars, nvars, tvars, log, data_>>
    \/ SemTryLockCAS(t) /\ UNCHANGED <<qvars, nvars, tvars, log, data_>>
    \/ SemWaitPendingReaders(t) /\ UNCHANGED <<qvars, nvars, tvars, log, data_>>

\* Thread t releases what it holds: it calls unlock_shared, or unlock.
SemRelease(t) ==
    \/ SemCall(t, "unlock_shared") /\ UNCHANGED <<qvars, nvars, tvars, log, data_>>
    \/ SemUnlock(t) /\ UNCHANGED <<qvars, nvars, tvars, log, data_>>

\* The semaphore used without reentrant read locks, by threads that the
\* scheduler keeps running and that release what they hold.
FairSpecSem ==
    /\ InitSem
    /\ [][SemNext /\ NoReentrantCall]_vars
    /\ \A t \in SemThreadIds :
           WF_vars(SemLoopStep(t)) /\ WF_vars(SemRelease(t))

SpecClearing == InitClearing /\ [][CNext]_vars

SpecOwning == InitOwning /\ [][ONext]_vars

SpecGuarantee == InitGuarantee /\ [][GNext]_vars

SpecQuota == InitQuota /\ [][QNext]_vars

-----------------------------------------------------------------------------
(* Claims about the quota, checked under SpecQuota.                         *)

\* The caller has respected the quota's contract so far: no Free returned more
\* than the usage held, and the limit is the one given at construction.
QSaneHistory == ~qghost.overFreed /\ ~qghost.quotaSet

\* C3: on an enforced quota with a fixed limit, as long as no Free returns
\* more than was granted, usage <= limit in every reachable state.
C3_EnforcedUsageWithinLimit ==
    (q.enforced_ /\ QSaneHistory) => q.usage_ <= q.quota_

\* C3's case: an enforced quota has just granted a request it had to cap, and
\* is now exactly full.
C3_Witness ==
    /\ q.enforced_ /\ QSaneHistory
    /\ qlast.op = "Allocate" /\ qlast.ret > 0 /\ qlast.ret < qlast.requested
    /\ q.usage_ = q.quota_

\* C4: an enforced quota denies Allocate(requested, minimal) (returns 0)
\* exactly when usage + minimal > limit, and otherwise grants
\* min(requested, limit - usage); a Free of no more than the usage gives
\* exactly that amount back, so the denied request succeeds again afterwards.
C4_EnforcedGrantRule ==
    /\ (q.enforced_ /\ qlast.op = "Allocate") =>
          /\ qlast.ret = (IF qlast.usage + qlast.minimal > q.quota_
                          THEN 0
                          ELSE Min(qlast.requested, q.quota_ - qlast.usage))
          /\ q.usage_ = qlast.usage + qlast.ret
    /\ (qlast.op = "Free" /\ qlast.requested <= qlast.usage) =>
          q.usage_ = qlast.usage - qlast.requested

\* C4's case: a full enforced quota (usage = limit > 0) has just denied
\* Allocate(1, 1).
C4_Witness ==
    /\ q.enforced_ /\ QSaneHistory
    /\ qlast.op = "Allocate" /\ qlast.requested = 1 /\ qlast.minimal = 1
    /\ qlast.usage = q.quota_ /\ q.quota_ > 0
    /\ qlast.ret = 0 /\ q.usage_ = q.quota_

\* The call was out of quota: usage > limit or minimal > limit - usage.
QLastOutOfQuota ==
    qlast.usage > q.quota_ \/ qlast.minimal > q.quota_ - qlast.usage

\* C5 as claimed: an advisory quota grants every out-of-quota Allocate exactly
\* minimal and adds it to usage.
C5_AdvisoryAlwaysGrantsMinimal ==
    (~q.enforced_ /\ qlast.op = "Allocate" /\ QLastOutOfQuota) =>
        /\ qlast.ret = qlast.minimal
        /\ q.usage_ = qlast.usage + qlast.minimal

\* C5 as amended: an advisory quota grants an out-of-quota Allocate exactly
\* minimal and adds it to usage when usage + minimal fits the counter
\* (<= SIZE_MAX); when it would overflow, the call returns 0 and usage is
\* unchanged.
C5_AdvisoryGrantsMinimalUnlessOverflow ==
    (~q.enforced_ /\ qlast.op = "Allocate" /\ QLastOutOfQuota) =>
        IF qlast.usage + qlast.minimal <= SizeMax
        THEN /\ qlast.ret = qlast.minimal
             /\ q.usage_ = qlast.usage + qlast.minimal
        ELSE /\ qlast.ret = 0
             /\ q.usage_ = qlast.usage

\* C5's case: an advisory quota at its limit was asked for more than minimal
\* and granted exactly minimal, which pushed it over the limit.
C5_Witness ==
    /\ ~q.enforced_ /\ QSaneHistory
    /\ qlast.op = "Allocate" /\ qlast.usage = q.quota_
    /\ qlast.minimal > 0 /\ qlast.requested > qlast.minimal
    /\ qlast.ret = qlast.minimal
    /\ q.usage_ > q.quota_

\* C6: Available() returns 0 when usage >= limit and limit - usage otherwise,
\* enforced or not; an advisory quota over its limit reports 0 and still grants
\* minimal-sized requests.
C6_AvailableValue ==
    /\ qlast.op = "Available" =>
          /\ q.usage_ >= q.quota_ => qlast.ret = 0
          /\ q.usage_ < q.quota_ => qlast.ret = q.quota_ - q.usage_
    /\ (~q.enforced_ /\ q.usage_ > q.quota_) =>
          /\ QuotaAvailable(q) = 0
          /\ \A m \in 1..(SizeMax - q.usage_) : QuotaAllocate(q, m, m).ret = m

\* C6's case: an advisory quota that Allocate pushed over its limit has just
\* answered Available() with 0 and can still grant a byte.
C6_Witness ==
    /\ ~q.enforced_ /\ QSaneHistory
    /\ q.usage_ > q.quota_ /\ q.usage_ < SizeMax
    /\ qlast.op = "Available" /\ qlast.ret = 0

\* C7 as claimed: usage equals the sum of the values Allocate returned minus
\* the sum of the amounts passed to Free.
C7_UsageIsGrantedMinusFreed == q.usage_ = qghost.net

\* C8 as claimed: a Free of more than the current usage is surfaced as an
\* error and does not leave usage wrapped around.
C8_OverFreeIsSurfaced ==
    (qlast.op = "Free" /\ qlast.requested > qlast.usage) =>
        /\ qlast.logged
        /\ q.usage_ <= qlast.usage

-----------------------------------------------------------------------------
(* Claims about the allocator nodes, checked under Spec.                    *)

\* C1: on every class of node, BestEffortAllocate(requested, minimal) with
\* minimal <= requested returns NULL or a buffer of a size in
\* [minimal, requested].
C1_GrantWithinRequest ==
    last.op = "Allocate" =>
        \/ last.buf = NoBuffer
        \/ last.minimal <= last.buf /\ last.buf <= last.requested

\* C1's case: a call was granted a buffer strictly between minimal and
\* requested.
C1_Witness ==
    /\ last.op = "Allocate" /\ last.buf # NoBuffer
    /\ last.minimal < last.buf /\ last.buf < last.requested

\* C2 as claimed (for calls during which malloc did not fail): on every class
\* of node and in every state, BestEffortAllocate(requested, minimal) with
\* requested = 0 or minimal = 0 returns a buffer.
C2_ZeroMinimalAlwaysGranted ==
    (last.op = "Allocate" /\ (last.requested = 0 \/ last.minimal = 0) /\ ~last.oom)
        => last.buf # NoBuffer

-----------------------------------------------------------------------------
(* Claims about the threads, under SpecThreads.                             *)

\* Every thread has made one call, Allocate(1), and every call has returned.
AllCalledAllocateOnce ==
    \A t \in Threads :
        th[t].pc = "idle" /\ hist[t].calls = 1 /\ hist[t].ones

\* C9: with T threads each calling Allocate(1) once on a ThreadSafeMemoryLimit
\* of enforced limit N, and no call to Free, once every call has returned
\* exactly min(T, N) of them have a buffer and the usage is min(T, N).
C9_ExactlyMinSucceed ==
    AllCalledAllocateOnce =>
        /\ BagCardinality(blocks) = Min(NumThreads, chain[2].quota_.quota_)
        /\ chain[2].quota_.usage_ = Min(NumThreads, chain[2].quota_.quota_)

\* As many threads as the limit: every call got its buffer.
C9_Witness ==
    /\ AllCalledAllocateOnce
    /\ chain[2].quota_.quota_ = NumThreads
    /\ BagCardinality(blocks) = NumThreads
    /\ chain[2].quota_.usage_ = NumThreads

\* What the call thread t is in gives when it is made alone, with nothing
\* else running, on the chain as it was when the call took the mutex.
SequentialOutcome(t) ==
    CASE th[t].op = "Allocate" ->
             BestEffortAllocate(th[t].snap, 1, th[t].requested, th[t].minimal,
                                th[t].room)
      [] th[t].op = "Reallocate" ->
             BestEffortReallocate(th[t].snap, 1, th[t].requested, th[t].minimal,
                                  th[t].size, th[t].room)
      [] th[t].op = "Free" -> FreeInternal(th[t].snap, 1, th[t].size)
      [] th[t].op = "Available" ->
             Result(th[t].snap, Available(th[t].snap, 1), <<>>, FALSE)

\* C10: a call through the ThreadSafeBufferAllocator holds the mutex from its
\* first step to its last, and when it is about to return the chain and the
\* call's result are those of the same call made alone on the chain it found:
\* the calls take effect one at a time, in the order they took the mutex.
C10_CallsAreAtomic ==
    \A t \in Threads :
        /\ th[t].pc # "idle" => mutex = t
        /\ th[t].pc = "unlock" =>
               /\ chain = SequentialOutcome(t).ch
               /\ th[t].result = SequentialOutcome(t).buf

\* A call that changed the usage is about to return, after a call of another
\* thread.
C10_Witness ==
    \E t \in Threads : \E u \in Threads \ {t} :
        /\ th[t].pc = "unlock"
        /\ th[t].op \in {"Allocate", "Reallocate"}
        /\ th[t].result # NoBuffer
        /\ chain # th[t].snap
        /\ th[t].snap[2].quota_.usage_ > 0
        /\ hist[u].calls > 0


-----------------------------------------------------------------------------
(* Claims about reallocation, under SpecRealloc.                            *)

\* C11: after BestEffortReallocate the caller still holds the Buffer it passed
\* in, with the allocator_ it had; if the call returned NULL the buffer's
\* size_ and data_ are what they were before the call, and if it returned the
\* buffer its size_ is the size granted.
C11_FailedReallocateLeavesBuffer ==
    last.op = "Reallocate" =>
        /\ BagIn(Buffer(last.after, 1), blocks)
        /\ last.buf = NoBuffer => last.after = last.size /\ last.data = "same"
        /\ last.buf # NoBuffer => last.after = last.buf

\* A reallocation failed in the heap, on a buffer of some size, under a node
\* that had made a first attempt before.
C11_Witness ==
    /\ last.op = "Reallocate" /\ last.buf = NoBuffer /\ last.oom
    /\ last.size > 0
    /\ chain[1].kind = "SoftQuotaBypassing"


\* The last call was BestEffortReallocate(size, size, buffer) for a buffer of
\* that very size, and malloc did not fail during it.
SameSizeReallocate ==
    /\ last.op = "Reallocate"
    /\ last.requested = last.size /\ last.minimal = last.size
    /\ ~last.oom

C13_GuaranteeAllOrNothing ==
    (chain[1].kind = "GuaranteeMemory" /\ last.op \in {"Allocate", "Reallocate"}
         /\ last.buf # NoBuffer)
        => last.buf = last.requested

\* A GuaranteeMemory granted a request whose minimal was below requested
\* while its limit_ was partly used.
C13_Witness ==
    /\ chain[1].kind = "GuaranteeMemory"
    /\ last.op \in {"Allocate", "Reallocate"}
    /\ last.buf = last.requested /\ last.minimal < last.requested
    /\ chain[2].quota_.usage_ > last.requested


-----------------------------------------------------------------------------
(* Claims about GuaranteeMemory over a heap with room, under SpecGuarantee. *)

RECURSIVE SumSizes(_, _)
\* The sum of the sizes of the Buffers of bag bs that are in set S.
SumSizes(S, bs) ==
    IF S = {}
    THEN 0
    ELSE LET b == CHOOSE x \in S : TRUE
         IN  b.size_ * CopiesIn(b, bs) + SumSizes(S \ {b}, bs)

\* The sum of the sizes of the outstanding Buffers.
Outstanding == SumSizes(BagToSet(blocks), blocks)

\* C14: on GuaranteeMemory(G) over a heap with room, an allocation is granted
\* only if it fits in G minus the sizes of the outstanding buffers, and
\* Available() is G minus those sizes: 0 once a buffer of size G is out (any
\* further Allocate(1) is denied) and G again once it is released.
C14_GuaranteeTracksOutstanding ==
    LET G == chain[1].memory_guarantee_
    IN  /\ Outstanding <= G
        /\ Available(chain, 1) = G - Outstanding
        /\ last.op = "Available" => last.avail = G - Outstanding
        /\ (last.op = "Allocate" /\ last.buf # NoBuffer) =>
               last.requested <= G - (Outstanding - last.buf)

\* A buffer of size G is out, Available() is 0 and Allocate(1) has just been
\* denied.
C14_Witness ==
    /\ BagIn(Buffer(chain[1].memory_guarantee_, 1), blocks)
    /\ Available(chain, 1) = 0
    /\ last.op = "Allocate" /\ last.requested = 1 /\ last.minimal = 1
    /\ last.buf = NoBuffer


(***************************************************************************)
(* Claims about the statistics collector, under SpecStats.                 *)
(***************************************************************************)
RECURSIVE TotalBytes(_, _)
TotalBytes(events, e) ==
    IF events = <<>> THEN 0
    ELSE (IF Head(events).e = e THEN Head(events).bytes ELSE 0)
         + TotalBytes(Tail(events), e)

RECURSIVE Logged(_, _)
Logged(events, e) ==
    IF events = <<>> THEN <<>>
    ELSE (IF Head(events).e = e THEN <<Head(events).p>> ELSE <<>>)
         \o Logged(Tail(events), e)

\* Whatever is asked of the owning node, for a new Buffer or for one handed
\* out, the answer and the delegate's state afterwards are those of asking the
\* delegate itself, and owned_ is as before.
ForwardsUnchanged ==
    LET delegate == Tail(chain)
        held == {b.size_ : b \in BagToSet(blocks)}
        Same(a, d) == /\ a.buf = d.buf
                      /\ a.oom = d.oom
                      /\ a.ev = d.ev
                      /\ a.ch = <<chain[1]>> \o d.ch
    IN  /\ Available(chain, 1) = Available(delegate, 1)
        /\ \A requested \in Size : \A minimal \in 0..requested : \A room \in HeapRooms :
               /\ Same(BestEffortAllocate(chain, 1, requested, minimal, room),
                       BestEffortAllocate(delegate, 1, requested, minimal, room))
               /\ \A size \in held :
                      LET a == BestEffortReallocate(chain, 1, requested, minimal, size, room)
                          d == BestEffortReallocate(delegate, 1, requested, minimal, size, room)
                      IN  Same(a, d) /\ a.size = d.size /\ a.data = d.data
        /\ \A size \in held :
               FreeInternal(chain, 1, size).ch
                   = <<chain[1]>> \o FreeInternal(delegate, 1, size).ch

\* C16: nothing owned is deleted while the OwningBufferAllocator lives; when it
\* has been destroyed the objects deleted are the objects given to Add(), each
\* once, in the reverse of the order they were given in; and however many
\* objects it owns, Allocate, Reallocate, Free and Available through it do
\* what they do on its delegate.
C16_OwnedDeletedInReverse ==
    /\ Alive =>
           /\ Logged(log, "Delete") = <<>>
           /\ chain[1].owned_ = Logged(log, "Add")
           /\ ForwardsUnchanged
    /\ ~Alive => Logged(log, "Delete") = Reverse(Logged(log, "Add"))

C16_Witness ==
    /\ ~Alive
    /\ Len(Logged(log, "Delete")) = MaxOwned
    /\ log[1].e = "Add"
    /\ last.op = "Free"

(***************************************************************************)
(* Claims about ClearingBufferAllocator, under SpecClearing.               *)
(***************************************************************************)
\* What a call through the clearing node does to the bytes of the Buffer.
ClearingStep ==
    /\ (last'.op = "Allocate" /\ last'.buf # NoBuffer) =>
           data_' = [k \in 1..last'.buf |-> 0]
    /\ (last'.op = "Reallocate" /\ last'.buf # NoBuffer /\ last'.after > last'.size) =>
           /\ Len(data_) = last'.size
           /\ data_' = [k \in 1..last'.after |->
                            IF k <= last'.size THEN data_[k] ELSE 0]
    /\ (last'.op = "Reallocate" /\ (last'.buf = NoBuffer \/ last'.after <= last'.size)) =>
           /\ Len(data_') = last'.after
           /\ \A k \in 1..Len(data_') : data_'[k] = data_[k]
    /\ (last'.op = "Reallocate" /\ last'.buf = NoBuffer) => data_' = data_

\* C17: through a ClearingBufferAllocator, a successful allocation of n bytes
\* leaves all n bytes zero; a successful reallocation that grows the Buffer
\* from m to n bytes leaves bytes [m, n) zero and bytes [0, m) as they were
\* before the call; a reallocation that fails, shrinks or keeps the size
\* changes none of the bytes the Buffer keeps.
C17_ClearingZeroesNewBytes == [][ClearingStep]_vars

C17_Witness ==
    /\ last.op = "Reallocate"
    /\ last.buf # NoBuffer
    /\ last.size = 1
    /\ last.after = 2
    /\ data_ = <<1, 0>>

(***************************************************************************)
(* Claims about the accounts the nodes keep, under Spec.                   *)
(***************************************************************************)
\* C18: a MemoryTrackingBufferAllocator whose tracker serves it alone has
\* consumed exactly the sizes of the Buffers handed out, in every state, so a
\* denial leaves the consumption as it was.  Without enforce_limit_ the tracker
\* never denies: NULL is returned only when the delegate failed, and the Buffer
\* has the requested size unless the delegate failed for it, also when the
\* consumption is at or over the tracker's limit.  With enforce_limit_ a
\* request whose minimal the tracker refuses is denied, and one denied while
\* the delegate did not fail had its minimal refused by the tracker.
C18_TrackerFollowsOutstanding ==
    chain[1].kind = "MemoryTracking" =>
        LET n == chain[1]
            granted == last.op = "Allocate" /\ last.buf # NoBuffer
            denied == last.op = "Allocate" /\ last.buf = NoBuffer
            before == IF granted THEN Outstanding - last.buf ELSE Outstanding
        IN  /\ n.consumption = Outstanding
            /\ (~n.enforce_limit_ /\ denied) => last.oom
            /\ (~n.enforce_limit_ /\ granted) =>
                   \/ last.buf = last.requested
                   \/ last.oom /\ last.buf = last.minimal
            /\ (n.enforce_limit_ /\ granted) =>
                   /\ before + last.minimal <= n.limit
                   /\ n.consumption <= n.limit
            /\ (n.enforce_limit_ /\ denied /\ ~last.oom) =>
                   before + last.minimal > n.limit

C18_Witness ==
    /\ chain[1].kind = "MemoryTracking"
    /\ ~chain[1].enforce_limit_
    /\ last.op = "Allocate"
    /\ last.buf = last.requested
    /\ last.buf > 0
    /\ chain[1].consumption - last.buf >= chain[1].limit
    /\ ~last.oom

(***************************************************************************)
(* Claims about a Buffer's allocator_, under SpecRealloc.                  *)
(***************************************************************************)
FreedEvents(events) == {k \in 1..Len(events) : events[k].e = "Freed"}

\* What a call does to the Buffers handed out and to their allocator_.
FreeingNodeStep ==
    /\ \A b \in BagToSet(blocks') : b.allocator_ = 1
    /\ last'.op = "Reallocate" =>
           \E b \in BagToSet(blocks) : \E c \in BagToSet(blocks') :
               /\ c.allocator_ = b.allocator_
               /\ c.size_ = last'.after
               /\ blocks' (-) SetToBag({c}) = blocks (-) SetToBag({b})
    /\ last'.op = "Allocate" =>
           \A b \in BagToSet(blocks) : CopiesIn(b, blocks') >= CopiesIn(b, blocks)
    /\ last'.op \in {"Allocate", "Reallocate"} =>
           /\ FreedEvents(last'.ev) = {}
           /\ BagCardinality(blocks') >= BagCardinality(blocks)
    /\ last'.op = "Free" =>
           /\ BagCardinality(blocks') = BagCardinality(blocks) - 1
           /\ chain[1].kind = "StatisticsCollecting" =>
                  last'.ev = <<[e |-> "Freed", bytes |-> last'.requested]>>
           /\ chain[1].kind = "MemoryLimit" =>
                  chain'[1].quota_.usage_ = chain[1].quota_.usage_ - last'.requested

\* C19: the allocator_ of a Buffer is the node the caller asked for it, and no
\* reallocation, successful or failed, changes it; deleting the Buffer runs
\* that node's FreeInternal once, for that Buffer alone, and no allocation or
\* reallocation frees or drops a Buffer that is handed out.
C19_FreeingNodeFixed == [][FreeingNodeStep]_vars

C19_Witness ==
    /\ chain[1].kind = "StatisticsCollecting"
    /\ last.op = "Reallocate"
    /\ last.buf # NoBuffer
    /\ last.after > last.size
    /\ blocks = SetToBag({Buffer(last.after, 1)})

(***************************************************************************)
(* Claims about denial, under SpecQuota.                                   *)
(***************************************************************************)
\* Allocate returned less than minimal: the request is denied.
Denied(call) == call.op = "Allocate" /\ call.ret < call.minimal

\* What a denial by an enforced quota returns and leaves behind.
DenialStep ==
    (Denied(qlast') /\ q.enforced_) =>
        /\ qlast'.ret = 0
        /\ q' = q
        /\ \A requested \in Size : \A minimal \in 0..requested :
               minimal <= QuotaAvailable(q') =>
                   LET r == QuotaAllocate(q', requested, minimal)
                   IN  /\ minimal <= r.ret
                       /\ r.ret <= requested
                       /\ r.ret = Min(requested, QuotaAvailable(q'))

\* C20: an enforced quota denies a request by returning 0 and nothing else:
\* its usage and its limit are what they were before the call, and a request
\* made next whose minimal is within what is available is granted.
C20_DenialChangesNothing == [][DenialStep]_vars

C20_Witness ==
    /\ Denied(qlast)
    /\ q.enforced_
    /\ q.usage_ = qlast.usage
    /\ q.usage_ > 0
    /\ QuotaAvailable(q) > 0

(***************************************************************************)
(* Claims about rw_semaphore, under SpecSem.                               *)
(***************************************************************************)
\* Thread t's step is the return of its lock_shared.
LockSharedReturns(t) == sem[t].pc = "lock_shared" /\ sem'[t].pc = "idle"

\* A writer has set the write flag and not yet unlocked.
WriterPending == \E t \in SemThreadIds : sem[t].pc = "wait" \/ sem[t].writer

NoNewReaderStep ==
    /\ \A t \in SemThreadIds :
           LockSharedReturns(t) =>
               /\ ~WriteFlagSet(state_)
               /\ ~WriterPending
               /\ state_' = state_ + 1
    /\ WriteFlagSet(state_) <=> WriterPending
    /\ WriteFlagSet(state_) =>
           \/ state_' = 0
           \/ WriteFlagSet(state_') /\ NumReaders(state_') <= NumReaders(state_)

\* C21: the write flag is set exactly from the compare-and-swap of a writer's
\* lock or try_lock to its unlock, the wait for the readers included; a
\* lock_shared returns only from a state whose write flag is clear, and while
\* the flag is set the number of readers never grows.
C21_NoNewReadersWhileWriteFlag == [][NoNewReaderStep]_vars

C21_Witness ==
    \E t, w \in SemThreadIds :
        /\ sem[w].pc = "wait"
        /\ NumReaders(state_) > 0
        /\ sem[t].pc = "lock_shared"
        /\ WriteFlagSet(sem[t].cur_state)

\* Thread r holds the read lock and is taking it again while thread w has set
\* the write flag and waits for the readers.
Stuck(r, w) ==
    /\ sem[r].pc = "lock_shared"
    /\ sem[r].shared > 0
    /\ sem[w].pc = "wait"

StuckStep ==
    \A r, w \in SemThreadIds :
        Stuck(r, w) =>
            /\ WriteFlagSet(state_) /\ PendingReaders(state_)
            /\ sem'[r].pc = "lock_shared" /\ sem'[r].shared = sem[r].shared
            /\ sem'[w].pc = "wait"

\* C22: once a thread that holds the read lock asks for it again while a
\* writer waits for the readers, the two stay where they are for ever: the
\* write flag stays set, so lock_shared cannot return, and the reader count
\* stays above 0, so WaitPendingReaders cannot return.
C22_ReentrantSharedDeadlocks == [][StuckStep]_vars

C22_Witness ==
    /\ Stuck(1, 2)
    /\ sem[1].shared = 1
    /\ state_ = kWriteFlag + 1
    /\ sem[1].cur_state = state_

(***************************************************************************)
(* Claims about the mediating node's account, under SpecRealloc.           *)
(***************************************************************************)
\* The chain is a MemoryLimit over the heap.
MemoryLimitOverHeap ==
    /\ Len(chain) = 2
    /\ chain[1].kind = "MemoryLimit"
    /\ chain[2].kind = "Heap"

\* C23 as claimed: on a MemoryLimit whose delegate does not fail, every
\* Allocate, Reallocate and Free leaves GetUsage() equal to the sum of the
\* sizes of the Buffers handed out.
C23_UsageIsOutstanding ==
    [][(/\ MemoryLimitOverHeap
        /\ chain[1].quota_.usage_ = Outstanding
        /\ ~last'.oom)
           => chain'[1].quota_.usage_ = Outstanding']_vars

\* C25: when the mediator has approved a reallocation and the delegate then
\* fails, the Buffer is as it was and the quota's usage is higher by the
\* approved amount, so it exceeds the sum of the sizes handed out.
C25_FailedReallocateKeepsUsage ==
    [][(/\ MemoryLimitOverHeap
        /\ last'.op = "Reallocate"
        /\ last'.buf = NoBuffer
        /\ last'.oom)
           => LET approved == QuotaAllocate(chain[1].quota_, last'.requested,
                                            last'.minimal).ret
              IN  /\ approved > 0
                  /\ blocks' = blocks
                  /\ last'.after = last'.size
                  /\ chain'[1].quota_.usage_ = chain[1].quota_.usage_ + approved
                  /\ chain'[1].quota_.usage_ > Outstanding']_vars

C25_Witness ==
    /\ MemoryLimitOverHeap
    /\ last.op = "Reallocate"
    /\ last.buf = NoBuffer
    /\ last.oom
    /\ blocks = SetToBag({Buffer(1, 1)})
    /\ chain[1].quota_.usage_ > Outstanding

(***************************************************************************)
(* Claims about a failing delegate, under Spec.                            *)
(***************************************************************************)
\* C24 as claimed: when the quota approves an allocation and the delegate
\* then fails, no Buffer is returned and the quota's usage is what it was
\* before the call.
C24_FailedAllocateLeavesUsage ==
    [][(/\ MemoryLimitOverHeap
        /\ last'.op = "Allocate"
        /\ last'.buf = NoBuffer)
           => chain'[1].quota_.usage_ = chain[1].quota_.usage_]_vars

(***************************************************************************)
(* Claims about denial, under SpecDenial.                                  *)
(***************************************************************************)
\* The entry node's mediator denies the call made in this step.
MediatorDenies ==
    /\ last'.op \in {"Allocate", "Reallocate"}
    /\ last'.minimal > 0
    /\ QuotaAllocate(chain[1].quota_, last'.requested, last'.minimal).ret = 0

\* C26: when the mediator of the entry MemoryLimit denies an allocation or a
\* reallocation, the call returns NULL, the collector below hears nothing and
\* every node below, and every Buffer, is as it was.
C26_DenialShortCircuits ==
    [][MediatorDenies =>
           /\ last'.buf = NoBuffer
           /\ last'.ev = <<>>
           /\ ~last'.oom
           /\ log' = log
           /\ blocks' = blocks
           /\ \A i \in 2..Len(chain) : chain'[i] = chain[i]]_vars

C26_Witness ==
    /\ chain[2].kind = "StatisticsCollecting"
    /\ chain[1].quota_.enforced_
    /\ last.op = "Reallocate"
    /\ last.buf = NoBuffer
    /\ ~last.oom
    /\ last.ev = <<>>
    /\ log # <<>>

(***************************************************************************)
(* Claims about the counter's range, under SpecQuota.                      *)
(***************************************************************************)
\* The request is out of quota for the quota qs.
OutOfQuota(qs, minimal) ==
    qs.usage_ > qs.quota_ \/ minimal > qs.quota_ - qs.usage_

\* C27: Quota::Allocate never wraps the usage counter. For every usage and
\* limit the quota can have and every requested and minimal in the counter's
\* range, the new usage is the mathematical sum of the old usage and the
\* grant; an advisory quota grants an out-of-quota request minimal when
\* usage + minimal <= SIZE_MAX and otherwise returns 0 and keeps the usage;
\* an in-quota grant is at most limit - usage.
C27_AllocateNeverWraps ==
    /\ \A requested \in Size, minimal \in Size :
           LET r == QuotaAllocate(q, requested, minimal)
           IN  /\ r.q.usage_ = q.usage_ + r.ret
               /\ (~q.enforced_ /\ OutOfQuota(q, minimal)) =>
                      IF q.usage_ + minimal <= SizeMax
                      THEN r.ret = minimal
                      ELSE r.ret = 0 /\ r.q.usage_ = q.usage_
               /\ ~OutOfQuota(q, minimal) => r.ret <= q.quota_ - q.usage_
    /\ qlast.op = "Allocate" => q.usage_ = qlast.usage + qlast.ret

\* C27's case: an advisory quota whose usage grew to the top of the counter by
\* allocations alone has just denied a request that would have wrapped it.
C27_Witness ==
    /\ ~q.enforced_ /\ QSaneHistory
    /\ qlast.op = "Allocate" /\ qlast.minimal > 0
    /\ qlast.usage + qlast.minimal > SizeMax
    /\ qlast.ret = 0
    /\ q.usage_ = qlast.usage

\* C28 as claimed: Free logs the error exactly when the amount exceeds the
\* usage by more than the slack.
C28_UnderflowFlaggedBeyondSlack ==
    qlast.op = "Free" =>
        (qlast.logged <=> qlast.requested > qlast.usage + UnderflowSlack)

\* C29: SetQuota may put the limit below the usage. SetQuota changes the
\* limit and never the usage; while usage > limit, Available() is 0 and an
\* enforced Allocate with minimal > 0 returns 0 and charges nothing, whatever
\* limit - usage would wrap to; and whenever usage + minimal <= limit an
\* Allocate(requested, minimal) grants min(requested, limit - usage).
C29_LimitBelowUsage ==
    /\ qlast.op = "SetQuota" =>
           /\ q.usage_ = qlast.usage
           /\ q.quota_ = qlast.requested
    /\ q.usage_ > q.quota_ =>
           /\ QuotaAvailable(q) = 0
           /\ qlast.op = "Available" => qlast.ret = 0
           /\ q.enforced_ =>
                  \A requested \in Size : \A minimal \in 1..requested :
                      /\ QuotaAllocate(q, requested, minimal).ret = 0
                      /\ QuotaAllocate(q, requested, minimal).q = q
    /\ \A requested \in Size : \A minimal \in 0..requested :
           q.usage_ + minimal <= q.quota_ =>
               /\ QuotaAllocate(q, requested, minimal).ret
                      = Min(requested, q.quota_ - q.usage_)
               /\ QuotaAllocate(q, requested, minimal).ret >= minimal

\* C29's case: SetQuota has put the limit of an enforced quota below what
\* its callers hold, and the quota has just denied an Allocate.
C29_Witness ==
    /\ q.enforced_ /\ qghost.quotaSet /\ ~qghost.overFreed
    /\ q.quota_ > 0 /\ q.usage_ > q.quota_
    /\ qlast.op = "Allocate" /\ qlast.minimal > 0
    /\ qlast.ret = 0 /\ q.usage_ = qlast.usage

(***************************************************************************)
(* Claims about SoftQuotaBypassingBufferAllocator, under Spec.             *)
(***************************************************************************)
\* The entry node is a SoftQuotaBypassingBufferAllocator; chain[2] is its
\* allocator_, chain[3] the allocator given to its constructor.
SoftEntry == chain[1].kind = "SoftQuotaBypassing"

\* The inflated minimum of a request, from the values the node below reports
\* before the call.
InflatedMinimal(requested, minimal) ==
    LET usage == chain[2].quota_.usage_
        below == Available(chain, 2)
        available == IF chain[1].bypassed_amount_ > usage
                     THEN Max(chain[1].bypassed_amount_ - usage, below)
                     ELSE below
    IN  Min(requested, Max(minimal, available))

\* An Allocate step on the node is the first attempt alone when that returns
\* a Buffer, and the first attempt followed by the second otherwise.
SoftAllocateStep ==
    (SoftEntry /\ last'.op = "Allocate") =>
        \E room \in HeapRooms :
            LET adjusted == InflatedMinimal(last'.requested, last'.minimal)
                first == AllocateInternal(chain, 2, last'.requested, adjusted, 1, room)
                second == AllocateInternal(first.ch, 2, last'.requested,
                                           last'.minimal, 1, room)
            IN  /\ last'.minimal <= adjusted /\ adjusted <= last'.requested
                /\ IF first.buf # NoBuffer
                   THEN /\ last'.buf = first.buf
                        /\ chain' = first.ch
                        /\ last'.buf >= adjusted
                   ELSE /\ last'.buf = second.buf
                        /\ chain' = second.ch
                /\ last'.buf # NoBuffer =>
                       last'.minimal <= last'.buf /\ last'.buf <= last'.requested
                /\ last'.buf = NoBuffer =>
                       first.buf = NoBuffer /\ second.buf = NoBuffer

SoftAvailableStep ==
    (SoftEntry /\ last'.op = "Available") =>
        LET usage == chain[2].quota_.usage_
        IN  last'.avail = IF chain[1].bypassed_amount_ > usage
                          THEN Max(chain[1].bypassed_amount_ - usage,
                                   Available(chain, 2))
                          ELSE Available(chain, 2)

\* C30: SoftQuotaBypassingBufferAllocator calls its allocator_ with the
\* minimum min(requested, max(minimal, Available())) and, only when that
\* returns NULL, once more with the caller's minimal; a Buffer it returns has
\* a size in [minimal, requested], at least the inflated minimum when the
\* first attempt gave it, and NULL is returned only when both attempts
\* returned NULL. Available() is max(bypassed_amount - usage, Available()
\* below) when bypassed_amount > usage and Available() below otherwise.
C30_SoftQuotaBypassing == [][SoftAllocateStep /\ SoftAvailableStep]_vars

\* C30's case: over an enforced MemoryLimit whose quota is below the bypassed
\* amount, the attempt with the inflated minimum was denied and the second
\* attempt returned a Buffer smaller than requested.
C30_Witness ==
    /\ SoftEntry
    /\ chain[3].quota_.enforced_
    /\ chain[1].bypassed_amount_ > chain[3].quota_.quota_
    /\ last.op = "Allocate"
    /\ last.buf # NoBuffer
    /\ last.buf < last.requested
    /\ BagCardinality(blocks) = 1
    /\ chain[2].quota_.usage_ > chain[3].quota_.usage_

(***************************************************************************)
(* Claims about SoftQuotaBypassingBufferAllocator, under SpecRealloc.      *)
(***************************************************************************)
\* The allocator given to the bypassing entry node is an enforced MemoryLimit.
SoftOverHard == SoftEntry /\ chain[3].quota_.enforced_

\* C31: whatever the bypassed amount and whatever is allocated, reallocated
\* and freed through the bypassing node, the usage of the enforced quota
\* below it stays within that quota's limit.
C31_HardQuotaHolds ==
    SoftOverHard => chain[3].quota_.usage_ <= chain[3].quota_.quota_

\* C31's case: the bypassed amount is above the hard limit, a Buffer has just
\* been handed out through the node, and Available() on the bypassing node
\* reports more than the hard quota can still grant.
C31_Witness ==
    /\ SoftOverHard
    /\ chain[1].bypassed_amount_ > chain[3].quota_.quota_
    /\ last.op \in {"Allocate", "Reallocate"}
    /\ last.buf # NoBuffer
    /\ chain[3].quota_.usage_ > 0
    /\ Available(chain, 1) > QuotaAvailable(chain[3].quota_)

\* C32 as claimed: the usage of the bypassing node's own MemoryLimit is the
\* sum of the sizes of the Buffers handed out through the node.
C32_NoResidue ==
    SoftEntry => chain[2].quota_.usage_ = Outstanding

(***************************************************************************)
(* Claims about GuaranteeMemory, under SpecRealloc.                        *)
(***************************************************************************)
GuaranteeEntry == chain[1].kind = "GuaranteeMemory"

\* C33 as claimed: a reallocation on a GuaranteeMemory is denied whenever
\* requested minus the buffer's size exceeds Available(), and when requested
\* is at most the buffer's size the guarantee check lets it through, so that
\* the call is what limit_ makes of (requested, requested).
C33_GuaranteeReallocateDelta ==
    [][(GuaranteeEntry /\ last'.op = "Reallocate") =>
           /\ last'.requested - last'.size > Available(chain, 1) =>
                  last'.buf = NoBuffer
           /\ last'.requested <= last'.size =>
                  \E room \in HeapRooms :
                      LET r == ReallocateInternal(chain, 2, last'.requested,
                                                  last'.requested, last'.size,
                                                  1, room)
                      IN  last'.buf = r.buf /\ chain' = r.ch]_vars

\* C34: the usage of a GuaranteeMemory's limit_ never exceeds
\* memory_guarantee_, so that Available() is the difference of the two and
\* does not wrap, whatever was allocated, reallocated (the delegate failing or
\* not) and freed.
C34_GuaranteeUsageBounded ==
    GuaranteeEntry =>
        /\ chain[2].quota_.usage_ <= chain[1].memory_guarantee_
        /\ Available(chain, 1)
               = chain[1].memory_guarantee_ - chain[2].quota_.usage_

\* C34's case: limit_ approved a reallocation that the heap then failed, and
\* the guarantee is used up.
C34_Witness ==
    /\ GuaranteeEntry
    /\ last.op = "Reallocate" /\ last.buf = NoBuffer /\ last.oom
    /\ chain[2].quota_.usage_ = chain[1].memory_guarantee_
    /\ Available(chain, 1) = 0

(***************************************************************************)
(* Claims about threads and mediators, under FairSpecMediators and         *)
(* SpecMediators.                                                          *)
(***************************************************************************)
\* C35: no mediator's mutex is held by a thread that is outside
\* Quota::Allocate and Quota::Free, and every call a thread makes on the
\* mediating allocators returns, also when two allocators use two quotas in
\* opposite orders.
C35_EveryCallReturns ==
    /\ [](\A t \in Threads : \A k \in 1..2 :
              mutex[k] = t => /\ th[t].pc \in {"alloc", "free"}
                              /\ k = MediatorOf(th[t].entry, th[t].level))
    /\ \A t \in Threads : (th[t].pc # "idle") ~> (th[t].pc = "idle")

\* C35's case: two threads entered at different allocators, each has been
\* through its own allocator's quota and now needs the quota the other went
\* through first.
C35_Witness ==
    /\ th[1].pc = "lock" /\ th[1].level = 2 /\ th[1].entry = 1
    /\ th[2].pc = "lock" /\ th[2].level = 2 /\ th[2].entry = 2
    /\ mutex = <<0, 0>>

\* C36 as claimed: the usage of each enforced quota never exceeds its limit,
\* and once every call has returned it is the sum of the sizes of the
\* Buffers the threads hold (every Buffer went through both quotas).
C36_NoInconsistency ==
    \A k \in 1..2 :
        /\ chain[k].quota_.usage_ <= chain[k].quota_.quota_
        /\ (\A t \in Threads : th[t].pc = "idle") =>
               chain[k].quota_.usage_ = Outstanding

(***************************************************************************)
(* Claims about threads sharing a plain MemoryLimit, under SpecUnsync.     *)
(***************************************************************************)
\* Every call so far was made by one and the same thread.
SingleThreaded ==
    \A t \in Threads : \A u \in Threads :
        (hist[t].calls > 0 /\ hist[u].calls > 0) => t = u

\* C37: threads calling Allocate and Free on a MemoryLimit with no lock
\* around the calls can leave its quota's usage above the enforced limit or
\* different from what it granted minus what was returned; when one thread
\* makes all the calls, or the calls enter through a
\* ThreadSafeBufferAllocator, the usage is within the limit and is what was
\* granted minus what was returned, at every moment.
C37_SerializedQuotaIsConsistent ==
    (chain[1].kind = "ThreadSafe" \/ SingleThreaded) =>
        /\ chain[2].quota_.usage_ <= chain[2].quota_.quota_
        /\ chain[2].quota_.usage_ = qghost.net

\* C37's case: with no lock at the entry, two threads' calls have returned,
\* each was granted what it asked for, and the usage is above the enforced
\* limit.
C37_Witness ==
    /\ chain[1].kind # "ThreadSafe"
    /\ \A t \in Threads : th[t].pc = "idle" /\ hist[t].calls > 0
    /\ chain[2].quota_.usage_ > chain[2].quota_.quota_
    /\ chain[2].quota_.usage_ = Outstanding

(***************************************************************************)
(* Claims about the release of a Buffer, under SpecRelease.                *)
(***************************************************************************)
\* The quotas and trackers of the chain hold bytes less in the next state
\* than in this one.
Credited(bytes) ==
    \A i \in DOMAIN chain :
        /\ chain[i].kind = "MemoryLimit" =>
               chain'[i].quota_.usage_ = chain[i].quota_.usage_ - bytes
        /\ chain[i].kind = "MemoryTracking" =>
               chain'[i].consumption = chain[i].consumption - bytes

ReleaseStep ==
    /\ \A b \in BagToSet(blocks') : b.allocator_ = 1
    /\ last'.op = "Free" =>
           /\ Credited(last'.requested)
           /\ last'.ev = <<[e |-> "Freed", bytes |-> last'.requested]>>
           /\ log' = log \o last'.ev

\* C38: a Buffer allocated through the entry node of a chain has the entry
\* node as its allocator_, and destroying it credits every quota and tracker
\* of the chain with its size once and tells the statistics collector once.
C38_ReleaseCreditsEveryDecorator == [][ReleaseStep]_vars

\* C38's case: the one Buffer handed out has been destroyed, and the quota
\* and the tracker are back at zero.
C38_Witness ==
    /\ last.op = "Free" /\ last.requested > 0
    /\ blocks = EmptyBag
    /\ \A i \in DOMAIN chain :
           /\ chain[i].kind = "MemoryLimit" => chain[i].quota_.usage_ = 0
           /\ chain[i].kind = "MemoryTracking" => chain[i].consumption = 0
    /\ Len(log) > 1

(***************************************************************************)
(* Claims about the write lock, under SpecSem and FairSpecSem.             *)
(***************************************************************************)
\* C39: while a thread holds the write lock, from the return of lock() or of
\* a successful try_lock() to its unlock(), no thread holds a shared lock, no
\* other thread holds the write lock, and state_ is exactly kWriteFlag, which
\* is what unlock() asserts.
C39_WriterExcludesAll ==
    \A t \in SemThreadIds :
        sem[t].writer =>
            /\ state_ = kWriteFlag
            /\ \A u \in SemThreadIds :
                   /\ sem[u].shared = 0
                   /\ u # t => ~sem[u].writer

\* C39's case: a thread holds the write lock while another thread is inside
\* lock_shared, lock or try_lock.
C39_Witness ==
    \E t \in SemThreadIds : \E u \in SemThreadIds :
        /\ sem[t].writer /\ sem[t].pc = "idle"
        /\ u # t
        /\ sem[u].pc \in {"lock_shared", "lock", "try_lock"}
        /\ WriteFlagSet(sem[u].cur_state)

\* C40 as claimed: a thread that calls lock() gets the write lock.
C40_LockAcquires ==
    \A t \in SemThreadIds : (sem[t].pc = "lock") ~> sem[t].writer

\* C40 as amended: once lock() has set the write flag the reader count only
\* decreases, and lock() returns with the write lock, while other threads
\* keep calling lock_shared; before the flag is set, lock() can retry its
\* compare-and-swap for ever.
C40_FlagSetThenAcquires ==
    /\ [][(WriteFlagSet(state_) /\ WriteFlagSet(state_'))
              => NumReaders(state_') <= NumReaders(state_)]_vars
    /\ \A t \in SemThreadIds : (sem[t].pc = "wait") ~> sem[t].writer

\* C40's case: a writer has set the flag and waits in WaitPendingReaders for
\* a reader that still holds the lock.
C40_Witness ==
    \E t \in SemThreadIds : \E u \in SemThreadIds :
        /\ sem[t].pc = "wait"
        /\ WriteFlagSet(state_) /\ NumReaders(state_) > 0
        /\ u # t /\ sem[u].shared > 0

====
